---------------------------- MODULE Spec2Model ----------------------------
(***************************************************************************)
(* State-machine model of the KunBox Tauri backend (src-tauri/src).        *)
(*                                                                         *)
(* The persisted files (profiles.json, configs/<id>.json, settings.json,   *)
(* rulesets.json, rulesets/<tag>.srs, config.json) are variables beside    *)
(* the in-memory AppState fields, so that cache and disk can be compared.  *)
(* A Rust Option is a sequence of length at most one: None is <<>> and     *)
(* Some(x) is <<x>>.  An absent file is None.                              *)
(***************************************************************************)
EXTENDS Integers, Sequences, FiniteSets, TLC

(***************************************************************************)
(* Bounds of the model.                                                    *)
(***************************************************************************)
MaxProfiles == 2      \* profile ids (uuids) that can be handed out
MaxNodes == 2         \* nodes the profile and node commands may leave under configs/, all files together
MaxStarts == 2        \* kernel processes spawned (cancellation tokens handed out)
WordBits == 3         \* bits of the model's u64

None == <<>>
Some(x) == <<x>>
IsSome(o) == o # <<>>
Unwrap(o) == o[1]

VARIABLES
    diskProfiles,     \* profiles.json: Option<ProfilesData>
    diskNodes,        \* configs/<id>.json: id -> Option<Seq(node)>
    profiles_data,    \* AppState.profiles_data (cache)
    nextUuid,         \* the next fresh Uuid::new_v4()
    diskSettings,     \* settings.json: Option<AppSettings>
    settings,         \* AppState.settings (cache)
    diskRulesets,     \* rulesets.json: Option<Seq(RuleSet)>
    rulesets,         \* AppState.rulesets (cache)
    srsCache,         \* the tags with a file rulesets/<tag>.srs
    configJson,       \* config.json: Option<configuration>
    kernelBinary,     \* resources/libs/sing-box.exe: Option<build>
    kernelBackup,     \* resources/libs/sing-box.exe.bak: Option<build>
    kernelTemp,       \* resources/libs/sing-box.exe.tmp: Option<build>
    temp_singbox_process, \* TEMP_SINGBOX_PROCESS: Option<child>
    tempConfigJson,   \* temp_test/config.json: Option<configuration>
    http,             \* the HTTP exchanges of the last command that uses the network
    proxy_state,      \* AppState.proxy_state
    singbox_process,  \* AppState.singbox_process: Option<child>
    start_time,       \* AppState.start_time
    traffic_cancel,   \* AppState.traffic_cancel: Option<token>
    cancelled,        \* the tokens on which cancel() was called
    nextToken,        \* the ordinal of the next kernel start
    systemProxy,      \* the OS system proxy (registry values)
    emitted,          \* the events emitted by the last command that emits any
    polling,          \* the live start_traffic_polling tasks: token -> locals
    traffic_stats,    \* AppState.traffic_stats
    inflight,         \* the commands that have started and not yet returned
    ret               \* the result of the last completed command

profVars == <<diskProfiles, diskNodes, profiles_data, nextUuid>>
setVars == <<diskSettings, settings>>
ruleVars == <<diskRulesets, rulesets, srsCache>>
confVars == <<configJson>>
kernVars == <<kernelBackup, kernelTemp>>
tempVars == <<temp_singbox_process, tempConfigJson>>
netVars == <<http>>
procVars == <<kernelBinary, proxy_state, singbox_process, start_time, traffic_cancel,
              cancelled, nextToken, systemProxy, emitted>>
trafVars == <<polling, traffic_stats>>
taskVars == <<inflight>>
vars == <<profVars, setVars, ruleVars, kernVars, tempVars, netVars, confVars, procVars, trafVars, taskVars, ret>>

\* what a command of one component leaves alone
notProf == <<setVars, ruleVars, kernVars, tempVars, netVars, confVars, procVars, trafVars, taskVars>>
notSet == <<profVars, ruleVars, kernVars, tempVars, netVars, confVars, procVars, trafVars, taskVars>>
notRule == <<profVars, setVars, kernVars, tempVars, netVars, confVars, procVars, trafVars, taskVars>>

Ids == 1..MaxProfiles
NodeTags == {"a", "b"}
Urls == {"u"}

(***************************************************************************)
(* types.rs                                                                *)
(***************************************************************************)
\* ProfilesData::default()
ProfilesDataDefault ==
    [profiles |-> <<>>, active_profile_id |-> None, active_node_tag |-> None]

\* A node (SingBoxOutbound), reduced to the fields the commands read.
Node(tag, type) == [tag |-> tag, type |-> type]

\* A command's result as the caller sees it.
\* kind is the record the command works on: "profiles", "settings", ...
Ok(kind) == [kind |-> kind, ok |-> TRUE, err |-> ""]
Err(kind, msg) == [kind |-> kind, ok |-> FALSE, err |-> msg]

(***************************************************************************)
(* Sequence helpers (Vec operations used by the handlers).                 *)
(***************************************************************************)
\* nodes.first().and_then(|n| n.tag.clone())
FirstTag(nodes) == IF nodes = <<>> THEN None ELSE nodes[1].tag

\* data.profiles.iter().position(|p| p.id == id)
Position(profiles, id) ==
    IF \E i \in 1..Len(profiles) : profiles[i].id = id
    THEN Some(CHOOSE i \in 1..Len(profiles) :
                 /\ profiles[i].id = id
                 /\ \A j \in 1..(i - 1) : profiles[j].id # id)
    ELSE None

HasProfile(profiles, id) == \E i \in 1..Len(profiles) : profiles[i].id = id

(***************************************************************************)
(* profiles.rs: persistence helpers                                        *)
(***************************************************************************)
load_profiles_data ==
    IF IsSome(diskProfiles) THEN Unwrap(diskProfiles) ELSE ProfilesDataDefault

load_profile_nodes(nodesOnDisk, id) ==
    IF IsSome(nodesOnDisk[id]) THEN Unwrap(nodesOnDisk[id]) ELSE <<>>

save_profile_nodes(nodesOnDisk, id, nodes) ==
    [nodesOnDisk EXCEPT ![id] = Some(nodes)]


save_profiles_data(data) == Some(data)

RECURSIVE StoredUpTo(_, _)
\* the nodes held by configs/1.json .. configs/n.json
StoredUpTo(nodesOnDisk, n) ==
    IF n = 0 THEN 0
    ELSE Len(load_profile_nodes(nodesOnDisk, n)) + StoredUpTo(nodesOnDisk, n - 1)

\* the cap the model puts on what the commands store
Fits(nodesOnDisk) == StoredUpTo(nodesOnDisk, MaxProfiles) <= MaxNodes

\* fetch_subscription: the remote answers with a node list, or the request or
\* the parse fails (None).  An empty url (an imported profile) cannot be fetched.
fetch_subscription(url, remote) == IF url = "" THEN None ELSE remote

\* parse_node_link: only ss:// links yield a node, always tagged shadowsocks
parse_node_link(link) ==
    IF link.scheme = "ss"
    THEN Some(Node(Some(link.tag), "shadowsocks"))
    ELSE None

\* map_clash_type, lines 524-539, on a lower-case type
map_clash_type(t) ==
    CASE t = "ss" -> "shadowsocks"
      [] t = "ssr" -> "shadowsocksr"
      [] t = "socks5" -> "socks"
      [] OTHER -> t

\* v1, v2, ... vn mapped by f, the None results dropped (iter().filter_map)
FilterMap(f(_), seq) ==
    LET kept == SelectSeq(seq, LAMBDA x : IsSome(f(x)))
    IN [i \in 1..Len(kept) |-> Unwrap(f(kept[i]))]

\* parse_clash_proxies, lines 315-470: an entry without a name, type, server
\* or port is dropped
parse_clash_proxies(proxies) ==
    FilterMap(LAMBDA p : IF IsSome(p.name) /\ IsSome(p.type) /\ IsSome(p.server) /\ IsSome(p.port)
                         THEN Some(Node(p.name, map_clash_type(Unwrap(p.type))))
                         ELSE None,
              proxies)

\* parse_singbox_outbounds, lines 472-484
parse_singbox_outbounds(outbounds) ==
    FilterMap(LAMBDA o : IF /\ IsSome(o.type)
                            /\ Unwrap(o.type) \notin {"direct", "block", "dns", "selector", "urltest"}
                         THEN Some(Node(o.tag, Unwrap(o.type)))
                         ELSE None,
              outbounds)

\* What the parsers make of a subscription body: json and yaml are the
\* documents serde_json::from_str and serde_yaml::from_str return (None when
\* the body is not of that format), each with its proxies and outbounds arrays
\* (None when the key is absent or holds no array); decoded holds the lines of
\* the base64-decoded body (None when the body is not base64 of UTF-8 text);
\* lines are the body's own lines.
Content(json, yaml, decoded, lines) ==
    [json |-> json, yaml |-> yaml, decoded |-> decoded, lines |-> lines]

\* a parser that looks for outbounds before proxies
parse_subscription_outbounds_first(content) ==
    IF IsSome(content.json) /\ IsSome(Unwrap(content.json).outbounds)
    THEN Some(parse_singbox_outbounds(Unwrap(Unwrap(content.json).outbounds)))
    ELSE IF IsSome(content.json) /\ IsSome(Unwrap(content.json).proxies)
    THEN Some(parse_clash_proxies(Unwrap(Unwrap(content.json).proxies)))
    ELSE IF IsSome(content.yaml) /\ IsSome(Unwrap(content.yaml).proxies)
    THEN Some(parse_clash_proxies(Unwrap(Unwrap(content.yaml).proxies)))
    ELSE LET decoded == IF IsSome(content.decoded)
                        THEN FilterMap(parse_node_link, Unwrap(content.decoded))
                        ELSE <<>>
             nodes == FilterMap(parse_node_link, content.lines)
         IN IF decoded # <<>> THEN Some(decoded)
            ELSE IF nodes = <<>> THEN None ELSE Some(nodes)

\* parse_subscription_content, lines 271-313; None is Err("No valid nodes found")
parse_subscription_content(content) ==
    IF IsSome(content.json) /\ IsSome(Unwrap(content.json).proxies)
    THEN Some(parse_clash_proxies(Unwrap(Unwrap(content.json).proxies)))
    ELSE IF IsSome(content.json) /\ IsSome(Unwrap(content.json).outbounds)
    THEN Some(parse_singbox_outbounds(Unwrap(Unwrap(content.json).outbounds)))
    ELSE IF IsSome(content.yaml) /\ IsSome(Unwrap(content.yaml).proxies)
    THEN Some(parse_clash_proxies(Unwrap(Unwrap(content.yaml).proxies)))
    ELSE LET decoded == IF IsSome(content.decoded)
                        THEN FilterMap(parse_node_link, Unwrap(content.decoded))
                        ELSE <<>>
             nodes == FilterMap(parse_node_link, content.lines)
         IN IF decoded # <<>> THEN Some(decoded)
            ELSE IF nodes = <<>> THEN None ELSE Some(nodes)

(***************************************************************************)
(* Inputs the front end and the network can supply.                        *)
(***************************************************************************)
NodePool == { Node(Some(t), "shadowsocks") : t \in NodeTags }
\* what a subscription url may answer with
NodeLists ==
    { <<>>,
      <<Node(Some("a"), "shadowsocks")>>,
      <<Node(Some("b"), "shadowsocks"), Node(Some("a"), "shadowsocks")>> }
Remotes == {None} \cup { Some(l) : l \in NodeLists }
Links == { [scheme |-> "ss", tag |-> t] : t \in NodeTags }
             \cup { [scheme |-> "vmess", tag |-> "a"] }

(***************************************************************************)
(* profiles.rs: the steps the handlers share                               *)
(***************************************************************************)
\* profile_add / profile_import_content, lines 103-108 and 994-999
PushProfile(data, profile, nodes) ==
    LET d1 == IF data.active_profile_id = None
              THEN [data EXCEPT !.active_profile_id = Some(profile.id),
                                !.active_node_tag = FirstTag(nodes)]
              ELSE data
    IN [d1 EXCEPT !.profiles = Append(d1.profiles, profile)]

\* a handler that forgets to refresh node_count
SetNodeCountForgotten(data, id, n) == data

\* profile.node_count = nodes.len() for the profile with this id
SetNodeCount(data, id, n) ==
    [data EXCEPT !.profiles =
        [i \in 1..Len(data.profiles) |->
            IF i = Unwrap(Position(data.profiles, id))
            THEN [data.profiles[i] EXCEPT !.node_count = n]
            ELSE data.profiles[i]]]

\* a profile_delete that clears the tag and keeps the deleted id active
PromoteAfterDeleteDangling(data, id) ==
    IF data.active_profile_id = Some(id)
    THEN [data EXCEPT !.active_node_tag = None]
    ELSE data

\* profile_delete, lines 143-146
PromoteAfterDelete(data, id) ==
    IF data.active_profile_id = Some(id)
    THEN [data EXCEPT
            !.active_profile_id =
                IF data.profiles = <<>> THEN None ELSE Some(data.profiles[1].id),
            !.active_node_tag = None]
    ELSE data

\* persist, then swap the cache: save_profiles_data + *state.profiles_data = data
Commit(data) ==
    /\ diskProfiles' = save_profiles_data(data)
    /\ profiles_data' = data

(***************************************************************************)
(* profiles.rs: commands, each run to completion                           *)
(***************************************************************************)
profile_list ==
    /\ UNCHANGED notProf
    /\ /\ profiles_data' = load_profiles_data
       /\ ret' = Ok("profiles")
       /\ UNCHANGED <<diskProfiles, diskNodes, nextUuid>>

profile_add(url, remote) ==
    /\ UNCHANGED notProf
    /\ LET fetched == fetch_subscription(url, remote) IN
       /\ nextUuid <= MaxProfiles
       /\ IF fetched = None
          THEN /\ ret' = Err("profiles", "fetch failed")
               /\ UNCHANGED profVars
          ELSE LET nodes == Unwrap(fetched)
                   profile == [id |-> nextUuid, url |-> url,
                               node_count |-> Len(nodes), enabled |-> TRUE]
               IN /\ diskNodes' = save_profile_nodes(diskNodes, profile.id, nodes)
                  /\ Fits(diskNodes')
                  /\ Commit(PushProfile(load_profiles_data, profile, nodes))
                  /\ nextUuid' = nextUuid + 1
                  /\ ret' = Ok("profiles")

profile_import_content(parsed) ==
    /\ UNCHANGED notProf
    /\ /\ nextUuid <= MaxProfiles
       /\ IF parsed = None
          THEN /\ ret' = Err("profiles", "No valid nodes found")
               /\ UNCHANGED profVars
          ELSE IF Unwrap(parsed) = <<>>
          THEN /\ ret' = Err("profiles", "No valid nodes found in content")
               /\ UNCHANGED profVars
          ELSE LET nodes == Unwrap(parsed)
                   profile == [id |-> nextUuid, url |-> "",
                               node_count |-> Len(nodes), enabled |-> TRUE]
               IN /\ diskNodes' = save_profile_nodes(diskNodes, profile.id, nodes)
                  /\ Fits(diskNodes')
                  /\ Commit(PushProfile(load_profiles_data, profile, nodes))
                  /\ nextUuid' = nextUuid + 1
                  /\ ret' = Ok("profiles")

profile_update(id, remote) ==
    /\ UNCHANGED notProf
    /\ LET data == load_profiles_data
           idx == Position(data.profiles, id)
       IN IF idx = None
          THEN /\ ret' = Err("profiles", "Profile not found")
               /\ UNCHANGED profVars
          ELSE LET fetched == fetch_subscription(data.profiles[Unwrap(idx)].url, remote)
               IN IF fetched = None
                  THEN /\ ret' = Err("profiles", "fetch failed")
                       /\ UNCHANGED profVars
                  ELSE /\ diskNodes' = save_profile_nodes(diskNodes, id, Unwrap(fetched))
                       /\ Fits(diskNodes')
                       /\ Commit(SetNodeCount(data, id, Len(Unwrap(fetched))))
                       /\ ret' = Ok("profiles")
                       /\ UNCHANGED nextUuid

profile_delete(id) ==
    /\ UNCHANGED notProf
    /\ LET data == load_profiles_data
           kept == [data EXCEPT !.profiles = SelectSeq(data.profiles, LAMBDA p : p.id # id)]
       IN /\ diskNodes' = [diskNodes EXCEPT ![id] = None]
          /\ Commit(PromoteAfterDelete(kept, id))
          /\ ret' = Ok("profiles")
          /\ UNCHANGED nextUuid

\* a profile_set_active without the existence check of lines 156-158
profile_set_active_unchecked(id) ==
    /\ UNCHANGED notProf
    /\ LET data == load_profiles_data IN
       /\ Commit([data EXCEPT
                    !.active_profile_id = Some(id),
                    !.active_node_tag = FirstTag(load_profile_nodes(diskNodes, id))])
       /\ ret' = Ok("profiles")
       /\ UNCHANGED <<diskNodes, nextUuid>>

profile_set_active(id) ==
    /\ UNCHANGED notProf
    /\ LET data == load_profiles_data IN
       IF ~HasProfile(data.profiles, id)
       THEN /\ ret' = Err("profiles", "Profile not found")
            /\ UNCHANGED profVars
       ELSE /\ Commit([data EXCEPT
                        !.active_profile_id = Some(id),
                        !.active_node_tag = FirstTag(load_profile_nodes(diskNodes, id))])
            /\ ret' = Ok("profiles")
            /\ UNCHANGED <<diskNodes, nextUuid>>

profile_edit(id, url) ==
    /\ UNCHANGED notProf
    /\ LET data == load_profiles_data
           idx == Position(data.profiles, id)
       IN IF idx = None
          THEN /\ ret' = Err("profiles", "Profile not found")
               /\ UNCHANGED profVars
          ELSE /\ Commit([data EXCEPT !.profiles[Unwrap(idx)].url = url])
               /\ ret' = Ok("profiles")
               /\ UNCHANGED <<diskNodes, nextUuid>>

profile_set_enabled(id, enabled) ==
    /\ UNCHANGED notProf
    /\ LET data == load_profiles_data
           idx == Position(data.profiles, id)
       IN IF idx = None
          THEN /\ ret' = Err("profiles", "Profile not found")
               /\ UNCHANGED profVars
          ELSE /\ Commit([data EXCEPT !.profiles[Unwrap(idx)].enabled = enabled])
               /\ ret' = Ok("profiles")
               /\ UNCHANGED <<diskNodes, nextUuid>>

node_set_active(tag) ==
    /\ UNCHANGED notProf
    /\ /\ Commit([load_profiles_data EXCEPT !.active_node_tag = Some(tag)])
       /\ ret' = Ok("profiles")
       /\ UNCHANGED <<diskNodes, nextUuid>>

node_delete(tag) ==
    /\ UNCHANGED notProf
    /\ LET data == load_profiles_data IN
       IF data.active_profile_id = None
       THEN /\ ret' = Err("profiles", "No active profile")
            /\ UNCHANGED profVars
       ELSE LET profile_id == Unwrap(data.active_profile_id)
                before == load_profile_nodes(diskNodes, profile_id)
                nodes == SelectSeq(before, LAMBDA n : n.tag # Some(tag))
            IN IF Len(nodes) = Len(before)
               THEN /\ ret' = Err("profiles", "Node not found")
                    /\ UNCHANGED profVars
               ELSE LET counted == IF HasProfile(data.profiles, profile_id)
                                   THEN SetNodeCount(data, profile_id, Len(nodes))
                                   ELSE data
                        retagged == IF counted.active_node_tag = Some(tag)
                                    THEN [counted EXCEPT !.active_node_tag = FirstTag(nodes)]
                                    ELSE counted
                    IN /\ diskNodes' = save_profile_nodes(diskNodes, profile_id, nodes)
                       /\ Commit(retagged)
                       /\ ret' = Ok("profiles")
                       /\ UNCHANGED nextUuid

node_add(link, profile_id) ==
    /\ UNCHANGED notProf
    /\ LET parsed == parse_node_link(link)
           data == load_profiles_data
           target == IF IsSome(profile_id) THEN profile_id ELSE data.active_profile_id
       IN IF parsed = None
          THEN /\ ret' = Err("profiles", "Invalid node link")
               /\ UNCHANGED profVars
          ELSE IF target = None
          THEN /\ ret' = Err("profiles", "No target profile")
               /\ UNCHANGED profVars
          ELSE IF ~HasProfile(data.profiles, Unwrap(target))
          THEN /\ ret' = Err("profiles", "Profile not found")
               /\ UNCHANGED profVars
          ELSE LET nodes == Append(load_profile_nodes(diskNodes, Unwrap(target)), Unwrap(parsed))
               IN /\ diskNodes' = save_profile_nodes(diskNodes, Unwrap(target), nodes)
                  /\ Fits(diskNodes')
                  /\ Commit(SetNodeCount(data, Unwrap(target), Len(nodes)))
                  /\ ret' = Ok("profiles")
                  /\ UNCHANGED nextUuid

(***************************************************************************)
(* profiles.rs: node links as text.  A text is the sequence of its bytes;  *)
(* the texts that arise here are ASCII.                                     *)
(***************************************************************************)
\* the index of the first c in s, 0 when there is none (str::find)
IndexOf(s, c) ==
    IF \E i \in 1..Len(s) : s[i] = c
    THEN CHOOSE i \in 1..Len(s) : s[i] = c /\ \A j \in 1..(i - 1) : s[j] # c
    ELSE 0

\* s.split(c).count() - 1
Occurrences(s, c) == Cardinality({ i \in 1..Len(s) : s[i] = c })

\* the standard base64 alphabet: A-Z a-z 0-9 + /
B64Char(v) ==
    CASE v \in 0..25 -> 65 + v
      [] v \in 26..51 -> 71 + v
      [] v \in 52..61 -> v - 4
      [] v = 62 -> 43
      [] OTHER -> 47

\* the value of a base64 digit, -1 for any other byte
B64Value(c) ==
    CASE c \in 65..90 -> c - 65
      [] c \in 97..122 -> c - 71
      [] c \in 48..57 -> c + 4
      [] c = 43 -> 62
      [] c = 47 -> 63
      [] OTHER -> -1

RECURSIVE B64Encode(_)
\* base64::engine::general_purpose::STANDARD.encode: three bytes to four
\* digits, the last group padded with '='
B64Encode(b) ==
    IF b = <<>> THEN <<>>
    ELSE IF Len(b) = 1
    THEN << B64Char(b[1] \div 4), B64Char((b[1] % 4) * 16), 61, 61 >>
    ELSE IF Len(b) = 2
    THEN << B64Char(b[1] \div 4), B64Char((b[1] % 4) * 16 + b[2] \div 16),
            B64Char((b[2] % 16) * 4), 61 >>
    ELSE << B64Char(b[1] \div 4), B64Char((b[1] % 4) * 16 + b[2] \div 16),
            B64Char((b[2] % 16) * 4 + b[3] \div 64), B64Char(b[3] % 64) >>
         \o B64Encode(SubSeq(b, 4, Len(b)))

RECURSIVE B64Decode(_)
\* STANDARD.decode: groups of four digits, canonical padding in the last
\* group only, no stray bits; None for any other text
B64Decode(t) ==
    IF t = <<>> THEN Some(<<>>)
    ELSE IF Len(t) < 4 THEN None
    ELSE LET v == [i \in 1..4 |-> B64Value(t[i])]
         IN IF Len(t) = 4 /\ t[3] = 61 /\ t[4] = 61
            THEN IF v[1] >= 0 /\ v[2] >= 0 /\ v[2] % 16 = 0
                 THEN Some(<< v[1] * 4 + v[2] \div 16 >>)
                 ELSE None
            ELSE IF Len(t) = 4 /\ t[4] = 61
            THEN IF v[1] >= 0 /\ v[2] >= 0 /\ v[3] >= 0 /\ v[3] % 4 = 0
                 THEN Some(<< v[1] * 4 + v[2] \div 16, (v[2] % 16) * 16 + v[3] \div 4 >>)
                 ELSE None
            ELSE IF \A i \in 1..4 : v[i] >= 0
            THEN LET rest == B64Decode(SubSeq(t, 5, Len(t)))
                 IN IF rest = None THEN None
                    ELSE Some(<< v[1] * 4 + v[2] \div 16, (v[2] % 16) * 16 + v[3] \div 4,
                                 (v[3] % 4) * 64 + v[4] >> \o Unwrap(rest))
            ELSE None

\* an upper-case hexadecimal digit, and the value of a hexadecimal digit
HexDigit(d) == IF d < 10 THEN 48 + d ELSE 55 + d
HexValue(c) ==
    CASE c \in 48..57 -> c - 48
      [] c \in 65..70 -> c - 55
      [] c \in 97..102 -> c - 87
      [] OTHER -> -1

RECURSIVE UrlEncode(_)
\* urlencoding::encode: every byte but A-Z a-z 0-9 - . _ ~ becomes %XX
UrlEncode(s) ==
    IF s = <<>> THEN <<>>
    ELSE (IF s[1] \in (48..57) \cup (65..90) \cup (97..122) \cup {45, 46, 95, 126}
          THEN <<s[1]>>
          ELSE <<37, HexDigit(s[1] \div 16), HexDigit(s[1] % 16)>>)
         \o UrlEncode(Tail(s))

RECURSIVE UrlDecode(_)
\* urlencoding::decode: %XX becomes the byte, any other '%' stays
UrlDecode(s) ==
    IF s = <<>> THEN <<>>
    ELSE IF s[1] = 37 /\ Len(s) >= 3 /\ HexValue(s[2]) >= 0 /\ HexValue(s[3]) >= 0
    THEN <<16 * HexValue(s[2]) + HexValue(s[3])>> \o UrlDecode(SubSeq(s, 4, Len(s)))
    ELSE <<s[1]>> \o UrlDecode(Tail(s))

\* String::from_utf8 on bytes that are ASCII or not text at all
FromUtf8(bytes) == IF \A i \in 1..Len(bytes) : bytes[i] < 128 THEN Some(bytes) ELSE None

RECURSIVE Decimal(_)
\* a u16 formatted with {}
Decimal(n) == IF n < 10 THEN <<48 + n>> ELSE Decimal(n \div 10) \o <<48 + (n % 10)>>

RECURSIVE DecimalValue(_)
DecimalValue(s) == IF s = <<>> THEN 0 ELSE 10 * DecimalValue(SubSeq(s, 1, Len(s) - 1)) + s[Len(s)] - 48

\* str::parse::<u16>: digits after an optional '+', at most 65535
ParseU16(s) ==
    LET digits == IF s # <<>> /\ s[1] = 43 THEN Tail(s) ELSE s
    IN IF /\ digits # <<>>
          /\ \A i \in 1..Len(digits) : digits[i] \in 48..57
          /\ Len(digits) <= 8
          /\ DecimalValue(digits) <= 65535
       THEN Some(DecimalValue(digits))
       ELSE None

\* a shadowsocks or trojan node with the fields the links carry; method and
\* password are entries of extra
LinkNode(tag, type, server, server_port, method, password) ==
    [tag |-> tag, type |-> type, server |-> server, server_port |-> server_port,
     method |-> method, password |-> password]

\* parse_node_link, lines 486-522, on the text of a link (parse_node_link
\* above is the same function on a link already split into scheme and tag)
parse_node_link_text(link) ==
    IF Len(link) < 5 \/ SubSeq(link, 1, 5) # <<115, 115, 58, 47, 47>>
    THEN None
    ELSE LET rest == SubSeq(link, 6, Len(link))
             hash == IndexOf(rest, 35)
             encoded == IF hash = 0 THEN rest ELSE SubSeq(rest, 1, hash - 1)
             tag == FromUtf8(UrlDecode(IF hash = 0 THEN <<83, 83>>
                                       ELSE SubSeq(rest, hash + 1, Len(rest))))
             at == IndexOf(encoded, 64)
             decoded == B64Decode(SubSeq(encoded, 1, at - 1))
             decoded_str == IF decoded = None THEN None ELSE FromUtf8(Unwrap(decoded))
             colon == IF decoded_str = None THEN 0 ELSE IndexOf(Unwrap(decoded_str), 58)
             host_port == SubSeq(encoded, at + 1, Len(encoded))
             sep == IndexOf(host_port, 58)
         IN IF tag = None \/ Occurrences(encoded, 64) # 1 THEN None
            ELSE IF decoded_str = None \/ colon = 0 THEN None
            ELSE IF Occurrences(host_port, 58) # 1 THEN None
            ELSE Some(LinkNode(tag, Some("shadowsocks"),
                               Some(SubSeq(host_port, 1, sep - 1)),
                               ParseU16(SubSeq(host_port, sep + 1, Len(host_port))),
                               Some(SubSeq(Unwrap(decoded_str), 1, colon - 1)),
                               Some(SubSeq(Unwrap(decoded_str), colon + 1,
                                           Len(Unwrap(decoded_str))))))

\* export_node_to_link, lines 902-963 (types are lower-case here).  A vmess
\* node is exported as base64 JSON, a vless node with a query and any other
\* node as JSON: forms the link parser never reads, kept as the node itself
export_node_to_link(node) ==
    LET tag == UrlEncode(IF IsSome(node.tag) THEN Unwrap(node.tag) ELSE <<78, 111, 100, 101>>)
        node_type == IF IsSome(node.type) THEN Unwrap(node.type) ELSE ""
        server == IF IsSome(node.server) THEN Unwrap(node.server) ELSE <<>>
        port == Decimal(IF IsSome(node.server_port) THEN Unwrap(node.server_port) ELSE 0)
        password == IF IsSome(node.password) THEN Unwrap(node.password) ELSE <<>>
        address == <<64>> \o server \o <<58>> \o port \o <<35>> \o tag
    IN IF node_type = "shadowsocks"
       THEN LET method == IF IsSome(node.method) THEN Unwrap(node.method)
                          ELSE <<97, 101, 115, 45, 50, 53, 54, 45, 103, 99, 109>>
            IN [text |-> TRUE,
                link |-> <<115, 115, 58, 47, 47>>
                         \o B64Encode(method \o <<58>> \o password) \o address]
       ELSE IF node_type = "trojan"
       THEN [text |-> TRUE,
             link |-> <<116, 114, 111, 106, 97, 110, 58, 47, 47>> \o password \o address]
       ELSE IF node_type = "hysteria2"
       THEN [text |-> TRUE,
             link |-> <<104, 121, 115, 116, 101, 114, 105, 97, 50, 58, 47, 47>>
                      \o password \o address]
       ELSE [text |-> FALSE, link |-> node]

\* node_export, lines 891-900
node_export(tag) ==
    /\ UNCHANGED <<notProf, profVars>>
    /\ LET data == load_profiles_data IN
       IF data.active_profile_id = None
       THEN ret' = Err("node_export", "No active profile")
       ELSE LET nodes == load_profile_nodes(diskNodes, Unwrap(data.active_profile_id))
                found == SelectSeq(nodes, LAMBDA n : n.tag = Some(tag))
            IN IF found = <<>>
               THEN ret' = Err("node_export", "Node not found")
               ELSE ret' = [kind |-> "node_export", ok |-> TRUE, err |-> "",
                            value |-> export_node_to_link(found[1])]

(***************************************************************************)
(* types.rs: AppSettings, reduced to one field of each wire type that      *)
(* set_settings merges (u16, bool, String) plus the fields the kernel      *)
(* commands read.                                                          *)
(***************************************************************************)
U16 == 65536

AppSettingsDefault ==
    [local_port |-> 7890, allow_lan |-> FALSE, system_proxy |-> TRUE,
     default_rule |-> "proxy", theme |-> "dark"]

\* serde_json::Value as far as set_settings looks at it
JNum(n) == [t |-> "u64", v |-> n]
JBool(b) == [t |-> "bool", v |-> b]
JStr(x) == [t |-> "str", v |-> x]
as_u64(j) == IF j.t = "u64" THEN Some(j.v) ELSE None
as_bool(j) == IF j.t = "bool" THEN Some(j.v) ELSE None
as_str(j) == IF j.t = "str" THEN Some(j.v) ELSE None

\* obj.get(key)
Get(obj, key) == IF key \in DOMAIN obj THEN Some(obj[key]) ELSE None

\* obj.get(key).and_then(conv), then the assignment `current.field = v`
MergeBool(old, obj, key) ==
    IF IsSome(Get(obj, key)) /\ IsSome(as_bool(obj[key])) THEN obj[key].v ELSE old

\* a merge that resets a string field whose key is absent
MergeStrResetting(old, obj, key) ==
    IF IsSome(Get(obj, key)) /\ IsSome(as_str(obj[key])) THEN obj[key].v ELSE ""

MergeStr(old, obj, key) ==
    IF IsSome(Get(obj, key)) /\ IsSome(as_str(obj[key])) THEN obj[key].v ELSE old

\* `v as u16` keeps the low 16 bits
MergeU16(old, obj, key) ==
    IF IsSome(Get(obj, key)) /\ IsSome(as_u64(obj[key])) THEN obj[key].v % U16 ELSE old

\* set_settings, lines 26-48: the merge of a payload onto `current`.
\* A payload is [object |-> settings.as_object().is_some(), map |-> its members].
MergeSettings(current, payload) ==
    IF ~payload.object THEN current
    ELSE LET obj == payload.map IN
         [local_port |-> MergeU16(current.local_port, obj, "localPort"),
          allow_lan |-> MergeBool(current.allow_lan, obj, "allowLan"),
          system_proxy |-> MergeBool(current.system_proxy, obj, "systemProxy"),
          default_rule |-> MergeStr(current.default_rule, obj, "defaultRule"),
          theme |-> MergeStr(current.theme, obj, "theme")]

\* the record set_settings starts from: state.settings.lock().await.clone()
CurrentSettings == settings

(***************************************************************************)
(* settings.rs: commands                                                   *)
(***************************************************************************)
get_settings ==
    /\ UNCHANGED notSet
    /\ settings' = IF IsSome(diskSettings) THEN Unwrap(diskSettings) ELSE settings
    /\ UNCHANGED diskSettings
    /\ ret' = Ok("settings")

set_settings(payload) ==
    /\ UNCHANGED notSet
    /\ LET current == MergeSettings(CurrentSettings, payload)
       IN /\ diskSettings' = Some(current)
          /\ settings' = current
    /\ ret' = Ok("settings")

\* The payloads the front end sends: no key, one or a pair of the wire keys,
\* each with a value of the right or of a wrong JSON type, and a key the
\* handler ignores.
KeyValues ==
    [localPort |-> {JNum(1080), JNum(66616), JNum(8080), JStr("1080")},
     allowLan |-> {JBool(TRUE), JBool(FALSE)},
     systemProxy |-> {JBool(TRUE), JBool(FALSE), JNum(0)},
     defaultRule |-> {JStr("proxy"), JStr("direct"), JStr("block"), JBool(TRUE)},
     theme |-> {JStr("light"), JStr("dark")},
     language |-> {JStr("zh")}]

WireKeys == DOMAIN KeyValues

Objects ==
    UNION { { f \in [keys -> UNION { KeyValues[k] : k \in keys }] :
                \A k \in keys : f[k] \in KeyValues[k] } :
            keys \in {{}} \cup { {k1, k2} : k1 \in WireKeys, k2 \in WireKeys } }

Payloads ==
    {[object |-> FALSE, map |-> <<>>]} \cup { [object |-> TRUE, map |-> f] : f \in Objects }

(***************************************************************************)
(* rulesets.rs: the rule-set list and its cache                            *)
(***************************************************************************)
\* RuleSet, reduced to the fields generate_config reads
RuleSet(tag, mode, value, enabled) ==
    [tag |-> tag, outbound_mode |-> mode, outbound_value |-> value, enabled |-> enabled]

\* get_default_rulesets: the four built-ins, all disabled
get_default_rulesets ==
    << RuleSet("geosite-cn", "direct", None, FALSE),
       RuleSet("geoip-cn", "direct", None, FALSE),
       RuleSet("geosite-private", "direct", None, FALSE),
       RuleSet("geosite-category-ads-all", "block", None, FALSE) >>

load_rulesets == IF IsSome(diskRulesets) THEN Unwrap(diskRulesets) ELSE get_default_rulesets

ruleset_list ==
    /\ UNCHANGED notRule
    /\ rulesets' = load_rulesets
    /\ UNCHANGED <<diskRulesets, srsCache>>
    /\ ret' = Ok("rulesets")

ruleset_save(list) ==
    /\ UNCHANGED notRule
    /\ diskRulesets' = Some(list)
    /\ rulesets' = list
    /\ UNCHANGED srsCache
    /\ ret' = Ok("rulesets")

(***************************************************************************)
(* rulesets.rs: ruleset_download.  A payload is the sequence of its bytes; *)
(* a url is the text head \o host \o tail (\o "@" \o at), host being the    *)
(* GitHub marker the url holds, if any.                                     *)
(***************************************************************************)
\* line 221: bytes.len() < 10
MinPayload == 10
\* line 226: std::cmp::min(64, bytes.len())
HeaderLen == 64

\* GITHUB_MIRRORS, lines 7-12
GITHUB_MIRRORS ==
    << "https://raw.githubusercontent.com/",
       "https://mirror.ghproxy.com/https://raw.githubusercontent.com/",
       "https://raw.gitmirror.com/",
       "https://raw.fastgit.org/" >>

Url(head, host, tail, at) == [head |-> head, host |-> host, tail |-> tail, at |-> at]

UrlText(u) ==
    u.head \o u.host \o u.tail \o (IF IsSome(u.at) THEN "@" \o Unwrap(u.at) ELSE "")

\* extract_github_path, lines 178-202: the text after the first
\* raw.githubusercontent.com/, or user/repo/branch/file of a jsDelivr url
\* user/repo@branch/file
extract_github_path(u) ==
    IF u.host = "raw.githubusercontent.com/"
    THEN Some(u.tail \o (IF IsSome(u.at) THEN "@" \o Unwrap(u.at) ELSE ""))
    ELSE IF u.host = "cdn.jsdelivr.net/gh/" /\ IsSome(u.at)
    THEN Some(u.tail \o "/" \o Unwrap(u.at))
    ELSE None

\* lines 134-140
urls_to_try(u) ==
    LET github_path == extract_github_path(u)
    IN IF IsSome(github_path)
       THEN [i \in 1..Len(GITHUB_MIRRORS) |-> GITHUB_MIRRORS[i] \o Unwrap(github_path)]
       ELSE <<UrlText(u)>>

\* char::to_lowercase on an ASCII byte
ToLower(b) == IF b \in 65..90 THEN b + 32 ELSE b

\* char::is_whitespace on an ASCII byte
IsWhitespace(b) == b \in {9, 10, 11, 12, 13, 32}

\* str::contains
Contains(s, needle) ==
    \E i \in 0..(Len(s) - Len(needle)) : SubSeq(s, i + 1, i + Len(needle)) = needle

\* "<!doctype html" and "<html"
DoctypeHtml == <<60, 33, 100, 111, 99, 116, 121, 112, 101, 32, 104, 116, 109, 108>>
HtmlTag == <<60, 104, 116, 109, 108>>

\* header.trim().starts_with('{')
TrimmedStartsWithBrace(header) ==
    \E i \in 1..Len(header) :
        /\ header[i] = 123
        /\ \A j \in 1..(i - 1) : IsWhitespace(header[j])

\* a verification that looks at the untrimmed header
VerifyBytesUntrimmed(bytes) ==
    LET header == SubSeq(bytes, 1, IF Len(bytes) < HeaderLen THEN Len(bytes) ELSE HeaderLen)
        header_lower == [i \in 1..Len(header) |-> ToLower(header[i])]
    IN IF Len(bytes) < MinPayload
       THEN [ok |-> FALSE, err |-> "File too small"]
       ELSE IF Contains(header_lower, DoctypeHtml) \/ Contains(header_lower, HtmlTag)
       THEN [ok |-> FALSE, err |-> "Received HTML instead of binary"]
       ELSE IF header # <<>> /\ header[1] = 123
       THEN [ok |-> FALSE, err |-> "Received JSON error response"]
       ELSE [ok |-> TRUE, err |-> ""]

\* download_and_verify, lines 220-238: the checks on the body
VerifyBytes(bytes) ==
    LET header == SubSeq(bytes, 1, IF Len(bytes) < HeaderLen THEN Len(bytes) ELSE HeaderLen)
        header_lower == [i \in 1..Len(header) |-> ToLower(header[i])]
    IN IF Len(bytes) < MinPayload
       THEN [ok |-> FALSE, err |-> "File too small"]
       ELSE IF Contains(header_lower, DoctypeHtml) \/ Contains(header_lower, HtmlTag)
       THEN [ok |-> FALSE, err |-> "Received HTML instead of binary"]
       ELSE IF TrimmedStartsWithBrace(header)
       THEN [ok |-> FALSE, err |-> "Received JSON error response"]
       ELSE [ok |-> TRUE, err |-> ""]

\* what the network answers to one GET: no answer, an answer with a status
\* whose body cannot be read, or an answer with a status and a body
Reply(sent, status, body) == [sent |-> sent, status |-> status, body |-> body]

\* download_and_verify, lines 205-239
download_and_verify(reply) ==
    IF ~reply.sent
    THEN [ok |-> FALSE, err |-> "Request failed"]
    ELSE IF reply.status \notin 200..299
    THEN [ok |-> FALSE, err |-> "HTTP " \o ToString(reply.status)]
    ELSE IF reply.body = None
    THEN [ok |-> FALSE, err |-> "Read body failed"]
    ELSE VerifyBytes(Unwrap(reply.body))

\* one GET as it is logged: the client, the url, the answer and the verdict
Exchange(client, url, reply, result) ==
    [client |-> client, url |-> url, reply |-> reply, result |-> result]

RECURSIVE TryDirectFirst(_, _, _, _, _)
\* a loop that tries the direct client before the proxy client
TryDirectFirst(urls, replies, k, log, last_error) ==
    IF k > 2 * Len(urls)
    THEN [ok |-> FALSE, err |-> "All download attempts failed: " \o last_error,
          url |-> None, log |-> log]
    ELSE LET url == urls[(k + 1) \div 2]
             client == IF k % 2 = 1 THEN "direct" ELSE "proxy"
             result == download_and_verify(replies[k])
             logged == Append(log, Exchange(client, url, replies[k], result))
         IN IF result.ok
            THEN [ok |-> TRUE, err |-> "", url |-> Some(url), log |-> logged]
            ELSE TryDirectFirst(urls, replies, k + 1, logged, result.err)

RECURSIVE TryUrls(_, _, _, _, _)
\* lines 142-174: attempt k is urls[(k + 1) / 2] through the proxy client
\* (k odd) or the direct client (k even); the first verified body ends the
\* loop, every failure replaces last_error
TryUrls(urls, replies, k, log, last_error) ==
    IF k > 2 * Len(urls)
    THEN [ok |-> FALSE, err |-> "All download attempts failed: " \o last_error,
          url |-> None, log |-> log]
    ELSE LET url == urls[(k + 1) \div 2]
             client == IF k % 2 = 1 THEN "proxy" ELSE "direct"
             result == download_and_verify(replies[k])
             logged == Append(log, Exchange(client, url, replies[k], result))
         IN IF result.ok
            THEN [ok |-> TRUE, err |-> "", url |-> Some(url), log |-> logged]
            ELSE TryUrls(urls, replies, k + 1, logged, result.err)

\* the JSON value ruleset_download returns, or its error
Downloaded(cached, url) ==
    [kind |-> "ruleset_download", ok |-> TRUE, err |-> "", cached |-> cached, url |-> url]

\* a ruleset_download that fetches again although the file is cached
ruleset_download_again(ruleset, replies) ==
    /\ UNCHANGED <<profVars, setVars, kernVars, tempVars, confVars, procVars, trafVars, taskVars>>
    /\ UNCHANGED <<diskRulesets, rulesets>>
    /\ IF ruleset.rule_type # "remote"
       THEN /\ ret' = Downloaded(TRUE, None)
            /\ http' = <<>>
            /\ UNCHANGED srsCache
       ELSE IF ruleset.url = None
       THEN /\ ret' = Err("ruleset_download", "No URL for ruleset")
            /\ http' = <<>>
            /\ UNCHANGED srsCache
       ELSE LET r == TryUrls(urls_to_try(Unwrap(ruleset.url)), replies, 1, <<>>, "")
            IN /\ http' = r.log
               /\ srsCache' = IF r.ok THEN srsCache \cup {ruleset.tag} ELSE srsCache
               /\ ret' = IF r.ok THEN Downloaded(FALSE, r.url) ELSE Err("ruleset_download", r.err)

\* ruleset_download, lines 101-175; replies[k] is the answer to the k-th GET
ruleset_download(ruleset, replies) ==
    /\ UNCHANGED <<profVars, setVars, kernVars, tempVars, confVars, procVars, trafVars, taskVars>>
    /\ UNCHANGED <<diskRulesets, rulesets>>
    /\ IF ruleset.rule_type # "remote" \/ ruleset.tag \in srsCache
       THEN /\ ret' = Downloaded(TRUE, None)
            /\ http' = <<>>
            /\ UNCHANGED srsCache
       ELSE IF ruleset.url = None
       THEN /\ ret' = Err("ruleset_download", "No URL for ruleset")
            /\ http' = <<>>
            /\ UNCHANGED srsCache
       ELSE LET r == TryUrls(urls_to_try(Unwrap(ruleset.url)), replies, 1, <<>>, "")
            IN /\ http' = r.log
               /\ srsCache' = IF r.ok THEN srsCache \cup {ruleset.tag} ELSE srsCache
               /\ ret' = IF r.ok THEN Downloaded(FALSE, r.url) ELSE Err("ruleset_download", r.err)

\* ruleset_is_cached, lines 241-245
ruleset_is_cached(tag) ==
    /\ UNCHANGED <<notRule, ruleVars>>
    /\ ret' = [kind |-> "ruleset_is_cached", ok |-> TRUE, err |-> "",
               value |-> tag \in srsCache]

(***************************************************************************)
(* kernel.rs: the kernel binary, its backup, version query, download and   *)
(* rollback.  The three files hold builds; the file operations inside      *)
(* resources/libs succeed unless an input says otherwise.                  *)
(***************************************************************************)
KERNEL_FILENAME == "sing-box.exe"

\* the contents File::create and a failed io::copy leave behind
Broken == 0

\* what running `sing-box.exe version` gave: executed is FALSE when the
\* process could not be spawned; stdout is a sequence of lines, each the
\* sequence of its whitespace-delimited words
Run(executed, success, stdout) == [executed |-> executed, success |-> success, stdout |-> stdout]

\* lines 91-101: the last word of the first line that holds "version"
ParseVersion(stdout) ==
    LET lines == SelectSeq(stdout, LAMBDA line : \E i \in 1..Len(line) : line[i] = "version")
    IN IF lines = <<>> THEN "unknown" ELSE lines[1][Len(lines[1])]

\* kernel_get_local_version, lines 65-107
kernel_get_local_version(run) ==
    /\ UNCHANGED <<profVars, setVars, ruleVars, kernVars, tempVars, netVars, confVars, procVars,
                   trafVars, taskVars>>
    /\ ret' = IF kernelBinary = None
              THEN [kind |-> "kernel_get_local_version", ok |-> TRUE, err |-> "", value |-> None]
              ELSE IF ~run.executed
              THEN Err("kernel_get_local_version", "spawn failed")
              ELSE IF run.success
              THEN [kind |-> "kernel_get_local_version", ok |-> TRUE, err |-> "",
                    value |-> Some([version |-> ParseVersion(run.stdout),
                                    version_detail |-> run.stdout, is_alpha |-> FALSE])]
              ELSE [kind |-> "kernel_get_local_version", ok |-> TRUE, err |-> "", value |-> None]

\* an entry of a zip archive; a name is the sequence of its pieces, the last
\* one being what ends_with looks at
ZipEntry(name, build) == [name |-> name, build |-> build]
ends_with(name, suffix) == name # <<>> /\ name[Len(name)] = suffix

\* the answer to the GET of release.download_url: sent is FALSE when the
\* request failed; length is Content-Length (0 when unknown); chunks is the
\* number of chunks read before the stream ended (streamOk) or failed;
\* archive is None when the bytes are not a zip archive
KernelReply(sent, status, length, chunks, streamOk, archive) ==
    [sent |-> sent, status |-> status, length |-> length, chunks |-> chunks,
     streamOk |-> streamOk, archive |-> archive]

\* lines 231-254: the index of the first entry whose name ends with
\* sing-box.exe, 0 when there is none
FirstKernelEntry(entries) ==
    IF \E i \in 1..Len(entries) : ends_with(entries[i].name, KERNEL_FILENAME)
    THEN CHOOSE i \in 1..Len(entries) :
            /\ ends_with(entries[i].name, KERNEL_FILENAME)
            /\ \A j \in 1..(i - 1) : ~ends_with(entries[j].name, KERNEL_FILENAME)
    ELSE 0

\* lines 236-249 without the backup: File::create truncates the live binary
InstallKernelOver(live, backup, build, install) ==
    [live |-> IF install = "ok" THEN Some(build) ELSE Some(Broken),
     backup |-> backup]

\* lines 236-249: the live binary moves to sing-box.exe.bak, replacing any
\* backup, then the entry is written.  install: "ok", or File::create fails
\* ("create"), or io::copy fails ("copy")
InstallKernel(live, backup, build, install) ==
    [live |-> IF install = "create" THEN None
              ELSE IF install = "copy" THEN Some(Broken)
              ELSE Some(build),
     backup |-> IF live # None THEN live ELSE backup]

\* kernel_download, lines 172-265
kernel_download(release, reply, install) ==
    /\ UNCHANGED <<profVars, setVars, ruleVars, tempVars, confVars, trafVars, taskVars>>
    /\ UNCHANGED <<kernelTemp, proxy_state, singbox_process, start_time, traffic_cancel,
                   cancelled, nextToken, systemProxy>>
    /\ http' = <<[method |-> "GET", url |-> release.download_url, reply |-> reply]>>
    /\ LET start == <<"kernel:download-start">>
           progress == IF reply.length > 0
                       THEN [i \in 1..reply.chunks |-> "kernel:download-progress"]
                       ELSE <<>>
           k == IF reply.archive = None THEN 0 ELSE FirstKernelEntry(Unwrap(reply.archive))
       IN IF ~reply.sent
          THEN /\ emitted' = start \o <<"kernel:download-error">>
               /\ ret' = Err("kernel_download", "request failed")
               /\ UNCHANGED <<kernelBinary, kernelBackup>>
          ELSE IF reply.status # 200
          THEN /\ emitted' = start \o <<"kernel:download-error">>
               /\ ret' = Err("kernel_download", "Download failed: status")
               /\ UNCHANGED <<kernelBinary, kernelBackup>>
          ELSE IF ~reply.streamOk
          THEN /\ emitted' = start \o progress
               /\ ret' = Err("kernel_download", "stream failed")
               /\ UNCHANGED <<kernelBinary, kernelBackup>>
          ELSE IF reply.archive = None
          THEN /\ emitted' = start \o progress
               /\ ret' = Err("kernel_download", "invalid archive")
               /\ UNCHANGED <<kernelBinary, kernelBackup>>
          ELSE IF k = 0
          THEN /\ emitted' = start \o progress \o <<"kernel:download-error">>
               /\ ret' = Err("kernel_download", "sing-box.exe not found in archive")
               /\ UNCHANGED <<kernelBinary, kernelBackup>>
          ELSE LET files == InstallKernel(kernelBinary, kernelBackup,
                                    Unwrap(reply.archive)[k].build, install)
               IN /\ kernelBinary' = files.live
                  /\ kernelBackup' = files.backup
                  /\ IF install = "ok"
                     THEN /\ emitted' = start \o progress \o <<"kernel:download-complete">>
                          /\ ret' = [kind |-> "kernel_download", ok |-> TRUE, err |-> "",
                                     value |-> [success |-> TRUE]]
                     ELSE /\ emitted' = start \o progress
                          /\ ret' = Err("kernel_download", "write failed")

\* fs::rename: the file at `from` replaces whatever is at `to`
Rename(files, from, to) == [files EXCEPT ![to] = files[from], ![from] = None]

\* lines 279-288 without the temporary name: the backup replaces the live binary
SwapLosingLive(files) == Rename(files, "bak", "live")

\* lines 279-288: live to .tmp, .bak to live, .tmp to .bak
Swap(files) ==
    LET a == IF files["live"] # None THEN Rename(files, "live", "tmp") ELSE files
        b == Rename(a, "bak", "live")
    IN IF b["tmp"] # None THEN Rename(b, "tmp", "bak") ELSE b

\* kernel_rollback, lines 267-291
kernel_rollback ==
    /\ UNCHANGED <<profVars, setVars, ruleVars, tempVars, netVars, confVars, trafVars, taskVars>>
    /\ UNCHANGED <<proxy_state, singbox_process, start_time, traffic_cancel,
                   cancelled, nextToken, systemProxy, emitted>>
    /\ IF kernelBackup = None
       THEN /\ ret' = [kind |-> "kernel_rollback", ok |-> TRUE, err |-> "",
                       value |-> [success |-> FALSE, error |-> "No backup available"]]
            /\ UNCHANGED <<kernelBinary, kernelBackup, kernelTemp>>
       ELSE LET files == Swap([live |-> kernelBinary, bak |-> kernelBackup, tmp |-> kernelTemp])
            IN /\ kernelBinary' = files["live"]
               /\ kernelBackup' = files["bak"]
               /\ kernelTemp' = files["tmp"]
               /\ ret' = [kind |-> "kernel_rollback", ok |-> TRUE, err |-> "",
                          value |-> [success |-> TRUE, error |-> ""]]

\* kernel_can_rollback, lines 293-298
kernel_can_rollback ==
    /\ UNCHANGED <<profVars, setVars, ruleVars, kernVars, tempVars, netVars, confVars, procVars,
                   trafVars, taskVars>>
    /\ ret' = [kind |-> "kernel_can_rollback", ok |-> TRUE, err |-> "",
               value |-> kernelBackup # None]

(***************************************************************************)
(* profiles.rs: latency tests through the control API of the main kernel,  *)
(* or of a disposable kernel instance when the main one is not Connected   *)
(***************************************************************************)
TEMP_SINGBOX_PORT == 19090
MAIN_API_PORT == 9090

\* generate_temp_config_raw, lines 789-861, on one node: method is dropped
\* unless the node is shadowsocks, tls and packet_encoding are added by type
\* and port.  A field the model's node does not carry is absent from the JSON
TempOutbound(node) ==
    LET port == IF "server_port" \in DOMAIN node /\ IsSome(node.server_port)
                THEN Unwrap(node.server_port) ELSE 0
    IN [node |-> node,
        method |-> node.type \in {"shadowsocks", "shadowsocksr"},
        tls |-> \/ node.type \in {"hysteria2", "hysteria", "tuic"}
                \/ node.type \in {"vless", "vmess", "trojan"} /\ port \in {443, 8443, 2053},
        packet_encoding |-> node.type = "vless"]

generate_temp_config_raw(nodes, api_port) ==
    [external_controller |-> api_port,
     outbounds |-> [i \in 1..Len(nodes) |-> TempOutbound(nodes[i])],
     final |-> "direct"]

\* start_temp_singbox, lines 651-743.  api: whether the instance's control API
\* answers check_clash_api_running; spawnOk: whether the spawn succeeds.
\* A child that is replaced is dropped, which kills it (kill_on_drop)
start_temp_singbox(api, spawnOk) ==
    LET process == IF temp_singbox_process # None /\ Unwrap(temp_singbox_process).exited
                   THEN None ELSE temp_singbox_process
        data == load_profiles_data
        nodes_raw == IF data.active_profile_id = None THEN <<>>
                     ELSE load_profile_nodes(diskNodes, Unwrap(data.active_profile_id))
        config == generate_temp_config_raw(nodes_raw, TEMP_SINGBOX_PORT)
    IN IF process # None /\ api
       THEN [started |-> TRUE, process |-> process, config |-> tempConfigJson]
       ELSE IF kernelBinary = None \/ data.active_profile_id = None \/ nodes_raw = <<>>
       THEN [started |-> FALSE, process |-> process, config |-> tempConfigJson]
       ELSE IF spawnOk
       THEN [started |-> TRUE, process |-> Some([config |-> config, exited |-> FALSE]),
             config |-> Some(config)]
       ELSE [started |-> FALSE, process |-> process, config |-> Some(config)]

\* the disposable instance exits by itself
temp_exit ==
    /\ temp_singbox_process # None
    /\ ~Unwrap(temp_singbox_process).exited
    /\ temp_singbox_process' = Some([Unwrap(temp_singbox_process) EXCEPT !.exited = TRUE])
    /\ UNCHANGED <<profVars, setVars, ruleVars, kernVars, netVars, confVars, procVars,
                   trafVars, taskVars, tempConfigJson, ret>>

\* the answer to GET /proxies/<tag>/delay: sent is FALSE when the request
\* failed; json is None for a body that is not JSON, Some(None) for JSON
\* without an integer "delay", Some(Some(d)) for a delay
DelayReply(sent, success, json) == [sent |-> sent, success |-> success, json |-> json]

\* test_latency_via_clash_api, lines 624-649
test_latency_via_clash_api(reply) ==
    IF ~reply.sent THEN [ok |-> FALSE, value |-> 0, err |-> "request failed"]
    ELSE IF ~reply.success THEN [ok |-> TRUE, value |-> -1, err |-> ""]
    ELSE IF reply.json = None THEN [ok |-> FALSE, value |-> 0, err |-> "invalid JSON"]
    ELSE IF Unwrap(reply.json) = None THEN [ok |-> TRUE, value |-> -1, err |-> ""]
    ELSE [ok |-> TRUE, value |-> Unwrap(Unwrap(reply.json)), err |-> ""]

DelayRequest(tag, port, reply) == [method |-> "GET", proxy |-> tag, port |-> port, reply |-> reply]

\* node_test_latency, lines 546-569
node_test_latency(tag, api, spawnOk, reply) ==
    /\ UNCHANGED <<profVars, setVars, ruleVars, kernVars, confVars, procVars, trafVars, taskVars>>
    /\ LET result == test_latency_via_clash_api(reply)
           answer == IF result.ok
                     THEN [kind |-> "node_test_latency", ok |-> TRUE, err |-> "",
                           value |-> result.value]
                     ELSE Err("node_test_latency", result.err)
       IN IF proxy_state = "connected"
          THEN /\ UNCHANGED tempVars
               /\ http' = <<DelayRequest(tag, MAIN_API_PORT, reply)>>
               /\ ret' = answer
          ELSE LET temp == start_temp_singbox(api, spawnOk)
               IN /\ temp_singbox_process' = temp.process
                  /\ tempConfigJson' = temp.config
                  /\ IF ~temp.started
                     THEN /\ http' = <<>>
                          /\ ret' = [kind |-> "node_test_latency", ok |-> TRUE, err |-> "",
                                     value |-> -1]
                     ELSE /\ http' = <<DelayRequest(tag, TEMP_SINGBOX_PORT, reply)>>
                          /\ ret' = answer

\* lines 598-619: the tagged nodes are probed in file order, five at a time,
\* and a probe that returns an error counts as -1; of two nodes with one tag
\* the later one's result stays in the map
BatchResults(nodes, replies) ==
    LET tagged == { i \in 1..Len(nodes) : IsSome(nodes[i].tag) }
        last(t) == CHOOSE i \in tagged :
                      /\ nodes[i].tag = Some(t)
                      /\ \A j \in tagged : nodes[j].tag = Some(t) => j <= i
        latency(i) == LET result == test_latency_via_clash_api(replies[i])
                      IN IF result.ok THEN result.value ELSE -1
    IN [t \in { Unwrap(nodes[i].tag) : i \in tagged } |-> latency(last(t))]

\* node_test_all, lines 571-622; replies: the answer to each node's probe
node_test_all(api, spawnOk, replies) ==
    /\ UNCHANGED <<profVars, setVars, ruleVars, kernVars, confVars, procVars, trafVars, taskVars>>
    /\ LET data == load_profiles_data
           nodes == IF data.active_profile_id = None THEN <<>>
                    ELSE load_profile_nodes(diskNodes, Unwrap(data.active_profile_id))
           tagged == SelectSeq(nodes, LAMBDA n : IsSome(n.tag))
           probes(port) == [i \in 1..Len(tagged) |->
                               DelayRequest(Unwrap(tagged[i].tag), port, replies[i])]
           results(port) ==
               [kind |-> "node_test_all", ok |-> TRUE, err |-> "",
                value |-> BatchResults(tagged, replies)]
           nothing == [kind |-> "node_test_all", ok |-> TRUE, err |-> "", value |-> <<>>]
       IN IF data.active_profile_id = None
          THEN /\ UNCHANGED tempVars /\ http' = <<>> /\ ret' = nothing
          ELSE IF proxy_state = "connected"
          THEN /\ UNCHANGED tempVars
               /\ http' = probes(MAIN_API_PORT)
               /\ ret' = results(MAIN_API_PORT)
          ELSE LET temp == start_temp_singbox(api, spawnOk)
               IN /\ temp_singbox_process' = temp.process
                  /\ tempConfigJson' = temp.config
                  /\ IF ~temp.started
                     THEN http' = <<>> /\ ret' = nothing
                     ELSE /\ http' = probes(TEMP_SINGBOX_PORT)
                          /\ ret' = results(TEMP_SINGBOX_PORT)

(***************************************************************************)
(* singbox.rs: generate_config                                             *)
(***************************************************************************)
ProxyTypes ==
    {"shadowsocks", "vmess", "vless", "trojan", "hysteria", "hysteria2", "tuic",
     "anytls", "http", "socks", "wireguard", "ssh", "shadowtls"}

is_proxy_type(node_type) == node_type \in ProxyTypes

\* an entry of config["outbounds"]: a node, a selector or a urltest
Outbound(type, tag, members, default) ==
    [type |-> type, tag |-> tag, outbounds |-> members, default |-> default]

\* a node as it is pushed to the outbounds; process_node (lines 190-231)
\* rewrites method, tls and packet_encoding and keeps tag and type
NodeOutbound(node) == Outbound(node.type, node.tag, <<>>, None)

\* the selector tag format!("P:{}", profile.name); a profile's name is its id here
SelectorTag(id) == "P:" \o ToString(id)

\* load_all_profiles: the cached profiles whose node file exists, in list order
load_all_profiles(nodesOnDisk, data) ==
    LET present == SelectSeq(data.profiles, LAMBDA p : IsSome(nodesOnDisk[p.id]))
    IN [i \in 1..Len(present) |->
           [id |-> present[i].id, nodes |-> Unwrap(nodesOnDisk[present[i].id])]]

\* the tagged proxy-type nodes of a list
TaggedProxyNodes(nodes) ==
    SelectSeq(nodes, LAMBDA n : is_proxy_type(n.type) /\ IsSome(n.tag))

\* rulesets.iter().filter(|r| r.enabled)
EnabledRulesets(list) == SelectSeq(list, LAMBDA r : r.enabled)

\* "node" | "节点" and "profile" | "配置"; the localized literals are written
\* "node-zh" and "profile-zh" here
IsNodeMode(mode) == mode \in {"node", "node-zh"}
IsProfileMode(mode) == mode \in {"profile", "profile-zh"}

\* lines 296-307: the HashSets of referenced node tags and profile ids
ReferencedNodeTags(enabled) ==
    { Unwrap(enabled[i].outbound_value) :
        i \in { j \in 1..Len(enabled) :
                  IsSome(enabled[j].outbound_value) /\ IsNodeMode(enabled[j].outbound_mode) } }

ReferencedProfileIds(enabled) ==
    { Unwrap(enabled[i].outbound_value) :
        i \in { j \in 1..Len(enabled) :
                  IsSome(enabled[j].outbound_value) /\ IsProfileMode(enabled[j].outbound_mode) } }

\* the orders in which a HashSet may be iterated
Orders(S) ==
    { s \in [1..Cardinality(S) -> S] : \A i, j \in 1..Cardinality(S) : i # j => s[i] # s[j] }

\* profile.nodes.iter().find(|n| n.tag == node_tag)
FindNode(nodes, tag) ==
    LET hits == SelectSeq(nodes, LAMBDA n : n.tag = Some(tag))
    IN IF hits = <<>> THEN None ELSE Some(hits[1])

\* lines 395-408: the first profile whose node of that tag is of a proxy type
FindCrossProfileNode(all, tag) ==
    LET hits == SelectSeq(all, LAMBDA p :
                    /\ IsSome(FindNode(p.nodes, tag))
                    /\ is_proxy_type(Unwrap(FindNode(p.nodes, tag)).type))
    IN IF hits = <<>> THEN None ELSE FindNode(hits[1].nodes, tag)

\* step 1, lines 378-387
ActiveProfileStep(nodes) ==
    LET proxies == SelectSeq(nodes, LAMBDA n : is_proxy_type(n.type))
        tagged == TaggedProxyNodes(nodes)
    IN [outbounds |-> [i \in 1..Len(proxies) |-> NodeOutbound(proxies[i])],
        proxy_tags |-> [i \in 1..Len(tagged) |-> Unwrap(tagged[i].tag)],
        existing_tags |-> { Unwrap(tagged[i].tag) : i \in 1..Len(tagged) },
        selectors |-> {}]

RECURSIVE CrossNodeStep(_, _, _, _)
\* step 2, lines 390-409, over the node tags in iteration order
CrossNodeStep(order, i, all, acc) ==
    IF i > Len(order) THEN acc
    ELSE LET tag == order[i]
             found == FindCrossProfileNode(all, tag)
         IN IF tag \in acc.existing_tags \/ found = None
            THEN CrossNodeStep(order, i + 1, all, acc)
            ELSE CrossNodeStep(order, i + 1, all,
                    [acc EXCEPT !.outbounds = Append(@, NodeOutbound(Unwrap(found))),
                                !.proxy_tags = Append(@, tag),
                                !.existing_tags = @ \cup {tag}])

RECURSIVE ProfileNodesStep(_, _, _)
\* lines 423-435: a referenced profile's nodes; acc carries profile_proxy_tags
ProfileNodesStep(nodes, i, acc) ==
    IF i > Len(nodes) THEN acc
    ELSE LET n == nodes[i] IN
         IF is_proxy_type(n.type) /\ IsSome(n.tag)
         THEN LET tag == Unwrap(n.tag)
                  a1 == IF tag \notin acc.existing_tags
                        THEN [acc EXCEPT !.outbounds = Append(@, NodeOutbound(n)),
                                         !.existing_tags = @ \cup {tag}]
                        ELSE acc
              IN ProfileNodesStep(nodes, i + 1,
                    [a1 EXCEPT !.profile_proxy_tags = Append(@, tag)])
         ELSE ProfileNodesStep(nodes, i + 1, acc)

RECURSIVE ProfileSelectorStep(_, _, _, _)
\* step 3, lines 414-453, over the profile ids in iteration order
ProfileSelectorStep(order, i, all, acc) ==
    IF i > Len(order) THEN acc
    ELSE LET pid == order[i]
             hits == SelectSeq(all, LAMBDA p : p.id = pid)
         IN IF hits = <<>> \/ SelectorTag(pid) \in acc.existing_tags
            THEN ProfileSelectorStep(order, i + 1, all, acc)
            ELSE LET a0 == [outbounds |-> acc.outbounds,
                            existing_tags |-> acc.existing_tags,
                            profile_proxy_tags |-> <<>>]
                     a1 == ProfileNodesStep(hits[1].nodes, 1, a0)
                     a2 == [acc EXCEPT !.outbounds = a1.outbounds,
                                       !.existing_tags = a1.existing_tags]
                 IN IF a1.profile_proxy_tags = <<>>
                    THEN ProfileSelectorStep(order, i + 1, all, a2)
                    ELSE ProfileSelectorStep(order, i + 1, all,
                            [a2 EXCEPT
                               !.outbounds = Append(@, Outbound("urltest",
                                   Some(SelectorTag(pid)), a1.profile_proxy_tags, None)),
                               !.existing_tags = @ \cup {SelectorTag(pid)},
                               !.selectors = @ \cup {pid}])

\* an auto urltest for any non-empty selector
NeedsAutoAlways(proxy_tags) == Len(proxy_tags) >= 1

\* line 457 and line 468: when the PROXY selector and the auto urltest are added
NeedsProxySelector(proxy_tags) == proxy_tags # <<>>
NeedsAuto(proxy_tags) == Len(proxy_tags) > 1

\* steps 4 to 6, lines 456-481
FinishOutbounds(acc, default_tag) ==
    LET withProxy ==
            IF NeedsProxySelector(acc.proxy_tags)
            THEN <<Outbound("selector", Some("PROXY"), acc.proxy_tags, default_tag)>>
                     \o acc.outbounds
            ELSE acc.outbounds
        withAuto ==
            IF NeedsAuto(acc.proxy_tags)
            THEN Append(withProxy, Outbound("urltest", Some("auto"), acc.proxy_tags, None))
            ELSE withProxy
    IN withAuto \o << Outbound("direct", Some("direct"), <<>>, None),
                      Outbound("block", Some("block"), <<>>, None) >>

\* lines 486-488
AvailableOutboundTags(outbounds) ==
    { Unwrap(outbounds[i].tag) : i \in { j \in 1..Len(outbounds) : IsSome(outbounds[j].tag) } }

\* lines 521-557: the outbound a rule set's rule routes to
RuleOutbound(rs, available, selectors) ==
    CASE rs.outbound_mode = "proxy" -> "PROXY"
      [] rs.outbound_mode = "direct" -> "direct"
      [] rs.outbound_mode = "block" -> "block"
      [] IsNodeMode(rs.outbound_mode) ->
            IF IsSome(rs.outbound_value) /\ Unwrap(rs.outbound_value) \in available
            THEN Unwrap(rs.outbound_value)
            ELSE "PROXY"
      [] IsProfileMode(rs.outbound_mode) ->
            IF /\ IsSome(rs.outbound_value)
               /\ Unwrap(rs.outbound_value) \in selectors
               /\ SelectorTag(Unwrap(rs.outbound_value)) \in available
            THEN SelectorTag(Unwrap(rs.outbound_value))
            ELSE "PROXY"
      [] OTHER -> rs.outbound_mode

\* a rule generation that drops the rule of a node-mode rule set whose node is
\* not among the outbounds
RuleSetRulesDropping(enabled, srs, available, selectors) ==
    LET cached == SelectSeq(enabled, LAMBDA r :
                      /\ r.tag \in srs
                      /\ (IsNodeMode(r.outbound_mode) /\ IsSome(r.outbound_value))
                            => Unwrap(r.outbound_value) \in available)
    IN [i \in 1..Len(cached) |->
           [rule_set |-> cached[i].tag,
            outbound |-> RuleOutbound(cached[i], available, selectors)]]

\* lines 503-563: one rule per enabled rule set whose .srs file is cached
RuleSetRules(enabled, srs, available, selectors) ==
    LET cached == SelectSeq(enabled, LAMBDA r : r.tag \in srs)
    IN [i \in 1..Len(cached) |->
           [rule_set |-> cached[i].tag,
            outbound |-> RuleOutbound(cached[i], available, selectors)]]

\* generate_config, lines 263-578, as a function of what it reads: the cached
\* ProfilesData, AppSettings and rule sets, the node files, the .srs cache, and
\* the orders in which the two HashSets are iterated.  The result carries the
\* CommandResult and, on success, the configuration written to config.json
\* (of its route rules, those of the rule sets).
GenerateConfig(data, st, list, nodesOnDisk, srs, nodeOrder, profileOrder) ==
    IF data.active_profile_id = None
    THEN [ok |-> FALSE, err |-> "No active profile", config |-> None]
    ELSE IF nodesOnDisk[Unwrap(data.active_profile_id)] = None
    THEN [ok |-> FALSE, err |-> "No nodes in active profile", config |-> None]
    ELSE IF Unwrap(nodesOnDisk[Unwrap(data.active_profile_id)]) = <<>>
    THEN [ok |-> FALSE, err |-> "No nodes in active profile", config |-> None]
    ELSE LET nodes == Unwrap(nodesOnDisk[Unwrap(data.active_profile_id)])
             active_node_tag ==
                 IF IsSome(data.active_node_tag) THEN data.active_node_tag
                 ELSE FirstTag(nodes)
             all == load_all_profiles(nodesOnDisk, data)
             enabled == EnabledRulesets(list)
             a1 == ActiveProfileStep(nodes)
             a2 == CrossNodeStep(nodeOrder, 1, all, a1)
             a3 == ProfileSelectorStep(profileOrder, 1, all, a2)
             outbounds == FinishOutbounds(a3, active_node_tag)
             rules == RuleSetRules(enabled, srs, AvailableOutboundTags(outbounds),
                                   a3.selectors)
         IN [ok |-> TRUE, err |-> "",
             config |-> Some(
                [listen |-> IF st.allow_lan THEN "0.0.0.0" ELSE "127.0.0.1",
                 listen_port |-> st.local_port,
                 dns_remote_detour |-> "PROXY",
                 final |-> IF st.default_rule = "proxy" THEN "PROXY" ELSE st.default_rule,
                 outbounds |-> outbounds,
                 rule_set |-> [i \in 1..Len(rules) |-> rules[i].rule_set],
                 rules |-> rules])]

\* the iteration orders generate_config may meet in the current state
NodeOrders == Orders(ReferencedNodeTags(EnabledRulesets(rulesets)))
ProfileOrders == Orders(ReferencedProfileIds(EnabledRulesets(rulesets)))

\* generate_config run on its own: config.json is written on success only
generate_config(nodeOrder, profileOrder) ==
    /\ UNCHANGED <<taskVars, profVars, setVars, ruleVars, kernVars, tempVars, netVars, procVars, trafVars>>
    /\ LET r == GenerateConfig(profiles_data, settings, rulesets, diskNodes, srsCache,
                               nodeOrder, profileOrder)
       IN /\ configJson' = IF r.ok THEN r.config ELSE configJson
          /\ ret' = IF r.ok THEN Ok("singbox") ELSE Err("singbox", r.err)

(***************************************************************************)
(* singbox.rs: process control                                             *)
(***************************************************************************)
\* the registry values of the OS system proxy
SystemProxyOff == [enable |-> FALSE, server |-> None]

\* enable_system_proxy_internal: ProxyEnable = 1, ProxyServer = 127.0.0.1:<port>
enable_system_proxy_internal(sp, port) == [enable |-> TRUE, server |-> Some(port)]

\* a stop that leaves the registry alone
disable_system_proxy_skipped(sp) == sp

\* disable_system_proxy_internal: ProxyEnable = 0, ProxyServer kept
disable_system_proxy_internal(sp) == [sp EXCEPT !.enable = FALSE]

\* a start that does not look for the binary
KernelMissingIgnored == FALSE

\* line 21: !singbox_path.exists()
KernelMissing == kernelBinary = None

\* the local variables of a start_traffic_polling task that has just been spawned
NewPoller == [pc |-> "sleep", last_upload |-> 0, last_download |-> 0]

\* what the process-control commands read and write
KernelState ==
    [configJson |-> configJson, proxy_state |-> proxy_state,
     singbox_process |-> singbox_process, start_time |-> start_time,
     traffic_cancel |-> traffic_cancel, cancelled |-> cancelled,
     nextToken |-> nextToken, systemProxy |-> systemProxy, emitted |-> emitted,
     polling |-> polling, ret |-> ret]

Install(k) ==
    /\ configJson' = k.configJson
    /\ proxy_state' = k.proxy_state
    /\ singbox_process' = k.singbox_process
    /\ start_time' = k.start_time
    /\ traffic_cancel' = k.traffic_cancel
    /\ cancelled' = k.cancelled
    /\ nextToken' = k.nextToken
    /\ systemProxy' = k.systemProxy
    /\ emitted' = k.emitted
    /\ polling' = k.polling
    /\ ret' = k.ret

\* singbox_start, lines 18-100, from kernel state k.  spawnOk: whether
\* Command::spawn succeeds.  The child, its start time and its cancellation
\* token are named by the ordinal of the start, k.nextToken.
StartFrom(k, spawnOk, nodeOrder, profileOrder) ==
    IF KernelMissing
    THEN [k EXCEPT !.ret = Err("singbox",
                       "sing-box.exe not found. Please install kernel first.")]
    ELSE LET r == GenerateConfig(profiles_data, settings, rulesets, diskNodes, srsCache,
                                 nodeOrder, profileOrder)
         IN IF ~r.ok THEN [k EXCEPT !.ret = Err("singbox", r.err)]
            ELSE IF ~spawnOk
            THEN [k EXCEPT !.configJson = r.config,
                           !.proxy_state = "connecting",
                           !.emitted = Append(@, "connecting"),
                           !.ret = Err("singbox", "spawn failed")]
            ELSE [k EXCEPT !.configJson = r.config,
                           !.singbox_process = Some(k.nextToken),
                           !.proxy_state = "connected",
                           !.start_time = Some(k.nextToken),
                           !.emitted = @ \o <<"connecting", "connected">>,
                           !.traffic_cancel = Some(k.nextToken),
                           !.polling = (k.nextToken :> NewPoller) @@ @,
                           !.nextToken = @ + 1,
                           !.systemProxy =
                               IF settings.system_proxy
                               THEN enable_system_proxy_internal(@, settings.local_port)
                               ELSE @,
                           !.ret = Ok("singbox")]

\* singbox_stop, lines 103-125, from kernel state k
StopFrom(k) ==
    [k EXCEPT !.cancelled = IF IsSome(k.traffic_cancel)
                            THEN @ \cup {Unwrap(k.traffic_cancel)} ELSE @,
              !.traffic_cancel = None,
              !.singbox_process = None,
              !.systemProxy = disable_system_proxy_internal(@),
              !.proxy_state = "idle",
              !.start_time = None,
              !.emitted = @ \o <<"disconnecting", "idle">>,
              !.ret = Ok("singbox")]

\* the fresh start of a command: no singbox:state event emitted yet
Called == [KernelState EXCEPT !.emitted = <<>>]

\* the model hands out MaxStarts tokens: a start that reaches the spawn of a
\* child needs one
CanStart(k, spawnOk) == (~KernelMissing /\ spawnOk) => k.nextToken <= MaxStarts

singbox_start(spawnOk, nodeOrder, profileOrder) ==
    /\ UNCHANGED <<taskVars, profVars, setVars, ruleVars, kernVars, tempVars, netVars, kernelBinary, traffic_stats>>
    /\ CanStart(Called, spawnOk)
    /\ Install(StartFrom(Called, spawnOk, nodeOrder, profileOrder))

singbox_stop ==
    /\ UNCHANGED <<taskVars, profVars, setVars, ruleVars, kernVars, tempVars, netVars, kernelBinary, traffic_stats>>
    /\ Install(StopFrom(Called))

\* singbox_restart, lines 128-132: stop, then start
singbox_restart(spawnOk, nodeOrder, profileOrder) ==
    /\ UNCHANGED <<taskVars, profVars, setVars, ruleVars, kernVars, tempVars, netVars, kernelBinary, traffic_stats>>
    /\ CanStart(Called, spawnOk)
    /\ Install(StartFrom(StopFrom(Called), spawnOk, nodeOrder, profileOrder))

\* singbox_switch_node, lines 146-165.  api: the outcome of the PUT to the
\* kernel's control API ("ok", a non-success "status", or a request "error")
\* the request of singbox_switch_node and its outcome
SwitchRequest(node_tag, api) ==
    [method |-> "PUT", url |-> "http://127.0.0.1:9090/proxies/PROXY",
     json |-> [name |-> node_tag], outcome |-> api]

singbox_switch_node_unguarded(node_tag, api) ==
    /\ UNCHANGED <<taskVars, profVars, setVars, ruleVars, kernVars, tempVars, confVars, trafVars>>
    /\ UNCHANGED <<kernelBinary, proxy_state, singbox_process, start_time,
                   traffic_cancel, cancelled, nextToken, systemProxy>>
    /\ emitted' = <<>>
    /\ http' = <<SwitchRequest(node_tag, api)>>
    /\ ret' = IF api = "ok" THEN Ok("singbox")
              ELSE IF api = "status" THEN Err("singbox", "API returned status")
              ELSE Err("singbox", "request failed")

singbox_switch_node(node_tag, api) ==
    /\ UNCHANGED <<taskVars, profVars, setVars, ruleVars, kernVars, tempVars, confVars, trafVars>>
    /\ UNCHANGED <<kernelBinary, proxy_state, singbox_process, start_time,
                   traffic_cancel, cancelled, nextToken, systemProxy>>
    /\ emitted' = <<>>
    /\ http' = IF proxy_state # "connected" THEN <<>> ELSE <<SwitchRequest(node_tag, api)>>
    /\ ret' = IF proxy_state # "connected" THEN Err("singbox", "VPN not running")
              ELSE IF api = "ok" THEN Ok("singbox")
              ELSE IF api = "status" THEN Err("singbox", "API returned status")
              ELSE Err("singbox", "request failed")

\* singbox_enable_system_proxy, lines 168-172
singbox_enable_system_proxy(port) ==
    /\ UNCHANGED <<taskVars, profVars, setVars, ruleVars, kernVars, tempVars, netVars, confVars, trafVars>>
    /\ UNCHANGED <<kernelBinary, proxy_state, singbox_process, start_time,
                   traffic_cancel, cancelled, nextToken>>
    /\ systemProxy' = enable_system_proxy_internal(systemProxy,
                          IF IsSome(port) THEN Unwrap(port) ELSE 7890)
    /\ emitted' = <<>>
    /\ ret' = Ok("singbox")

\* singbox_disable_system_proxy, lines 175-178
singbox_disable_system_proxy ==
    /\ UNCHANGED <<taskVars, profVars, setVars, ruleVars, kernVars, tempVars, netVars, confVars, trafVars>>
    /\ UNCHANGED <<kernelBinary, proxy_state, singbox_process, start_time,
                   traffic_cancel, cancelled, nextToken>>
    /\ systemProxy' = disable_system_proxy_internal(systemProxy)
    /\ emitted' = <<>>
    /\ ret' = Ok("singbox")

(***************************************************************************)
(* singbox.rs: start_traffic_polling, one task per cancellation token       *)
(***************************************************************************)
\* u64 arithmetic, at the model's word width
Word == 2 ^ WordBits
MaxWord == Word - 1

\* data.get(key).and_then(|v| v.as_u64()).unwrap_or(0)
ReportedTotal(data, key) ==
    IF IsSome(Get(data, key)) /\ IsSome(as_u64(data[key])) THEN data[key].v ELSE 0

\* a subtraction that wraps when the total went down
SpeedWrapping(total, last) == (total - last) % Word

\* lines 657-658: if total > last { total - last } else { 0 }
Speed(total, last) == IF total > last THEN (total - last) % Word ELSE 0

\* the sleep of one second elapsed before the token was cancelled: the
\* request to the control API is sent
poll_request(tok) ==
    /\ tok \in DOMAIN polling
    /\ polling[tok].pc = "sleep"
    /\ tok \notin cancelled
    /\ polling' = [polling EXCEPT ![tok].pc = "request"]
    /\ UNCHANGED <<taskVars, profVars, setVars, ruleVars, kernVars, tempVars, netVars, confVars, procVars, traffic_stats, ret>>

\* lines 651-680: the request has completed.  resp is None when it failed,
\* Some(None) when the body is not JSON, Some(Some(data)) otherwise.
poll_response(tok, resp) ==
    /\ tok \in DOMAIN polling
    /\ polling[tok].pc = "request"
    /\ IF IsSome(resp) /\ IsSome(Unwrap(resp))
       THEN LET data == Unwrap(Unwrap(resp))
                upload_total == ReportedTotal(data, "uploadTotal")
                download_total == ReportedTotal(data, "downloadTotal")
            IN /\ traffic_stats' =
                     [upload_speed |-> Speed(upload_total, polling[tok].last_upload),
                      download_speed |-> Speed(download_total, polling[tok].last_download),
                      upload_total |-> upload_total,
                      download_total |-> download_total]
               /\ polling' = [polling EXCEPT ![tok] =
                                 [pc |-> "sleep", last_upload |-> upload_total,
                                  last_download |-> download_total]]
       ELSE /\ polling' = [polling EXCEPT ![tok].pc = "sleep"]
            /\ UNCHANGED traffic_stats
    /\ UNCHANGED <<taskVars, profVars, setVars, ruleVars, kernVars, tempVars, netVars, confVars, procVars, ret>>

\* lines 640-643: the token was cancelled; the task leaves its loop
poll_exit(tok) ==
    /\ tok \in DOMAIN polling
    /\ polling[tok].pc = "sleep"
    /\ tok \in cancelled
    /\ polling' = [t \in DOMAIN polling \ {tok} |-> polling[t]]
    /\ UNCHANGED <<taskVars, profVars, setVars, ruleVars, kernVars, tempVars, netVars, confVars, procVars, traffic_stats, ret>>

\* what the control API may answer: each total absent, not a number, or a
\* number at either end of the u64 range
Totals == {0, 1, MaxWord - 1, MaxWord}
TotalValues == { JNum(n) : n \in Totals } \cup { JStr("x") }
TrafficKeys == {"uploadTotal", "downloadTotal"}
TrafficData ==
    UNION { [keys -> TotalValues] : keys \in SUBSET TrafficKeys }
Responses == {None, Some(None)} \cup { Some(Some(d)) : d \in TrafficData }

(***************************************************************************)
(* Overlapping commands.  A handler is a task of the async runtime: it     *)
(* runs up to an await (the subscription fetch, the lock of the cache      *)
(* mutex), and other handlers run in between.  A task keeps the record it  *)
(* has built in its local `data`.                                          *)
(***************************************************************************)
Slots == {1, 2}

IdleTask == [pc |-> "idle", cmd |-> "", id |-> 0, data |-> <<>>]

\* profile_update, lines 117-121: the read of profiles.json, up to the fetch
update_begin(t, id) ==
    /\ inflight[t].pc = "idle"
    /\ LET data == load_profiles_data IN
       IF ~HasProfile(data.profiles, id)
       THEN /\ ret' = Err("profiles", "Profile not found")
            /\ UNCHANGED inflight
       ELSE /\ inflight' = [inflight EXCEPT ![t] =
                 [pc |-> "fetch", cmd |-> "profile_update", id |-> id, data |-> data]]
            /\ UNCHANGED ret
    /\ UNCHANGED <<profVars, setVars, ruleVars, kernVars, tempVars, netVars, confVars, procVars, trafVars>>

\* profile_update, lines 122-128: the fetch has returned; both files are written
update_write(t, remote) ==
    /\ inflight[t].pc = "fetch"
    /\ LET id == inflight[t].id
           data == inflight[t].data
           url == data.profiles[Unwrap(Position(data.profiles, id))].url
           fetched == fetch_subscription(url, remote)
       IN IF fetched = None
          THEN /\ ret' = Err("profiles", "fetch failed")
               /\ inflight' = [inflight EXCEPT ![t] = IdleTask]
               /\ UNCHANGED <<diskNodes, diskProfiles>>
          ELSE LET nodes == Unwrap(fetched)
                   updated == SetNodeCount(data, id, Len(nodes))
               IN /\ diskNodes' = save_profile_nodes(diskNodes, id, nodes)
                  /\ Fits(diskNodes')
                  /\ diskProfiles' = save_profiles_data(updated)
                  /\ inflight' = [inflight EXCEPT ![t] =
                        [pc |-> "swap", cmd |-> "profile_update", id |-> id,
                         data |-> updated]]
                  /\ UNCHANGED ret
    /\ UNCHANGED <<profiles_data, nextUuid, setVars, ruleVars, kernVars, tempVars, netVars, confVars, procVars, trafVars>>

\* profile_delete, lines 137-149: everything before the lock of the cache
delete_write(t, id) ==
    /\ inflight[t].pc = "idle"
    /\ LET data == load_profiles_data
           kept == [data EXCEPT !.profiles = SelectSeq(@, LAMBDA p : p.id # id)]
           after == PromoteAfterDelete(kept, id)
       IN /\ diskNodes' = [diskNodes EXCEPT ![id] = None]
          /\ diskProfiles' = save_profiles_data(after)
          /\ inflight' = [inflight EXCEPT ![t] =
                [pc |-> "swap", cmd |-> "profile_delete", id |-> id, data |-> after]]
    /\ UNCHANGED <<profiles_data, nextUuid, setVars, ruleVars, kernVars, tempVars, netVars, confVars, procVars, trafVars, ret>>

\* set_settings, lines 23-52: the clone of the cache, the merge and the write
settings_write(t, payload) ==
    /\ inflight[t].pc = "idle"
    /\ LET current == MergeSettings(CurrentSettings, payload)
       IN /\ diskSettings' = Some(current)
          /\ inflight' = [inflight EXCEPT ![t] =
                [pc |-> "swap", cmd |-> "set_settings", id |-> 0, data |-> current]]
    /\ UNCHANGED <<settings, profVars, ruleVars, kernVars, tempVars, netVars, confVars, procVars, trafVars, ret>>

\* the last statement of each handler: *state.<cache>.lock().await = data
cache_swap(t) ==
    /\ inflight[t].pc = "swap"
    /\ IF inflight[t].cmd = "set_settings"
       THEN /\ settings' = inflight[t].data
            /\ ret' = Ok("settings")
            /\ UNCHANGED profiles_data
       ELSE /\ profiles_data' = inflight[t].data
            /\ ret' = Ok("profiles")
            /\ UNCHANGED settings
    /\ inflight' = [inflight EXCEPT ![t] = IdleTask]
    /\ UNCHANGED <<diskProfiles, diskNodes, nextUuid, diskSettings, ruleVars, kernVars, tempVars, netVars, confVars,
                   procVars, trafVars>>

(***************************************************************************)
(* The application after AppState::new: every cache holds its default.     *)
(***************************************************************************)
\* TrafficStats::default()
TrafficStatsDefault ==
    [upload_speed |-> 0, download_speed |-> 0, upload_total |-> 0, download_total |-> 0]

\* no kernel started, no polling task, no command in flight, system proxy off,
\* no request sent, no kernel backup or temp file
ProcessIdle ==
    /\ proxy_state = "idle"
    /\ http = <<>>
    /\ kernelBackup = None
    /\ kernelTemp = None
    /\ temp_singbox_process = None
    /\ tempConfigJson = None
    /\ singbox_process = None
    /\ start_time = None
    /\ traffic_cancel = None
    /\ traffic_stats = TrafficStatsDefault
    /\ cancelled = {}
    /\ nextToken = 1
    /\ polling = <<>>
    /\ emitted = <<>>
    /\ systemProxy = SystemProxyOff
    /\ inflight = [t \in Slots |-> IdleTask]

CachesDefault ==
    /\ profiles_data = ProfilesDataDefault
    /\ settings = AppSettingsDefault
    /\ rulesets = <<>>
    /\ ProcessIdle
    /\ ret = Ok("startup")

\* no rule set saved or downloaded, no configuration generated yet
NoRulesetFiles ==
    /\ diskRulesets = None
    /\ srsCache = {}
    /\ configJson = None

\* first launch: the data directory is empty
FreshDir ==
    /\ diskProfiles = None
    /\ diskNodes = [i \in Ids |-> None]
    /\ nextUuid = 1
    /\ diskSettings = None

\* a later launch: the directory holds what an earlier session left, here a
\* subscription with one node, made active, and settings changed by the user
PersistedProfile ==
    [id |-> 1, url |-> "u", node_count |-> 1, enabled |-> TRUE]

PersistedSettings ==
    [AppSettingsDefault EXCEPT !.local_port = 1080, !.theme = "light"]

UsedDir ==
    /\ diskProfiles = Some([profiles |-> <<PersistedProfile>>,
                            active_profile_id |-> Some(1),
                            active_node_tag |-> Some("a")])
    /\ diskNodes = [i \in Ids |->
                      IF i = 1 THEN Some(<<Node(Some("a"), "shadowsocks")>>) ELSE None]
    /\ nextUuid = 2
    /\ diskSettings = Some(PersistedSettings)

Init == CachesDefault /\ FreshDir /\ NoRulesetFiles /\ kernelBinary = None

InitRelaunch ==
    CachesDefault /\ (FreshDir \/ UsedDir) /\ NoRulesetFiles /\ kernelBinary = None

\* the commands that add, refresh and delete profiles and nodes, one at a time
Next ==
    \/ profile_list
    \/ \E url \in Urls, remote \in Remotes : profile_add(url, remote)
    \/ \E parsed \in Remotes : profile_import_content(parsed)
    \/ \E id \in Ids, remote \in Remotes : profile_update(id, remote)
    \/ \E id \in Ids : profile_delete(id)
    \/ \E id \in Ids : profile_set_active(id)
    \/ \E tag \in NodeTags : node_set_active(tag)
    \/ \E tag \in NodeTags : node_delete(tag)
    \/ \E link \in Links, pid \in {None} \cup {Some(i) : i \in Ids} : node_add(link, pid)

Spec == Init /\ [][Next]_vars

\* the same commands, profile_edit and profile_set_enabled, on a first or a
\* later launch
NextRelaunch ==
    \/ Next
    \/ \E id \in Ids, url \in Urls \cup {""} : profile_edit(id, url)
    \/ \E id \in Ids, enabled \in BOOLEAN : profile_set_enabled(id, enabled)

SpecRelaunch == InitRelaunch /\ [][NextRelaunch]_vars

\* the settings commands, on a first or a later launch
NextSettings ==
    \/ get_settings
    \/ \E payload \in Payloads : set_settings(payload)

SpecSettings == InitRelaunch /\ [][NextSettings]_vars

(***************************************************************************)
(* Process control: the kernel commands beside the commands that load the  *)
(* caches they read, on a first or a later launch, with or without a       *)
(* kernel binary.                                                          *)
(***************************************************************************)
InitKernel ==
    CachesDefault /\ (FreshDir \/ UsedDir) /\ NoRulesetFiles /\ kernelBinary \in {None, Some(1)}

\* the payloads that switch the system-proxy setting
ProxyPayloads ==
    { [object |-> TRUE, map |-> [k \in {"systemProxy"} |-> JBool(b)]] : b \in BOOLEAN }

ApiOutcomes == {"ok", "status", "error"}

NextKernel ==
    \/ profile_list
    \/ get_settings
    \/ \E payload \in ProxyPayloads : set_settings(payload)
    \/ \E spawnOk \in BOOLEAN, no \in NodeOrders, po \in ProfileOrders :
          singbox_start(spawnOk, no, po)
    \/ singbox_stop
    \/ \E spawnOk \in BOOLEAN, no \in NodeOrders, po \in ProfileOrders :
          singbox_restart(spawnOk, no, po)
    \/ \E tag \in NodeTags, api \in ApiOutcomes : singbox_switch_node(tag, api)
    \/ \E port \in {None, Some(1080)} : singbox_enable_system_proxy(port)
    \/ singbox_disable_system_proxy
    \/ \E tok \in DOMAIN polling : poll_exit(tok)

SpecKernel == InitKernel /\ [][NextKernel]_vars

(***************************************************************************)
(* Traffic polling: the state a later launch is in once profile_list has   *)
(* loaded the profiles and singbox_start has succeeded; the task spawned   *)
(* by that start polls until singbox_stop cancels it.                      *)
(***************************************************************************)
InitTraffic ==
    /\ UsedDir
    /\ diskRulesets = None
    /\ srsCache = {}
    /\ profiles_data = Unwrap(diskProfiles)
    /\ settings = AppSettingsDefault
    /\ rulesets = <<>>
    /\ configJson = GenerateConfig(profiles_data, settings, rulesets, diskNodes,
                                   srsCache, <<>>, <<>>).config
    /\ kernelBinary = Some(1)
    /\ kernelBackup = None
    /\ kernelTemp = None
    /\ temp_singbox_process = None
    /\ tempConfigJson = None
    /\ http = <<>>
    /\ proxy_state = "connected"
    /\ singbox_process = Some(1)
    /\ start_time = Some(1)
    /\ traffic_cancel = Some(1)
    /\ traffic_stats = TrafficStatsDefault
    /\ cancelled = {}
    /\ nextToken = 2
    /\ polling = (1 :> NewPoller)
    /\ emitted = <<"connecting", "connected">>
    /\ systemProxy = enable_system_proxy_internal(SystemProxyOff, settings.local_port)
    /\ inflight = [t \in Slots |-> IdleTask]
    /\ ret = Ok("singbox")

NextTraffic ==
    \/ singbox_stop
    \/ \E tok \in DOMAIN polling : poll_request(tok)
    \/ \E tok \in DOMAIN polling, resp \in Responses : poll_response(tok, resp)
    \/ \E tok \in DOMAIN polling : poll_exit(tok)

SpecTraffic == InitTraffic /\ [][NextTraffic]_vars

(***************************************************************************)
(* Configuration synthesis: generate_config applied to the data            *)
(* directories and caches that earlier commands can leave behind.          *)
(***************************************************************************)
\* node lists a subscription in sing-box or Clash format can yield: tagged and
\* untagged nodes, of proxy types and of a type the kernel model does not
\* count as proxy (shadowsocksr, from a Clash "ssr" entry)
ActiveLists ==
    { <<>>,
      <<Node(Some("a"), "shadowsocks")>>,
      <<Node(Some("a"), "shadowsocks"), Node(Some("b"), "vmess")>>,
      <<Node(Some("c"), "shadowsocksr")>>,
      <<Node(None, "vless")>>,
      <<Node(Some("c"), "shadowsocksr"), Node(Some("a"), "shadowsocks")>> }

OtherLists ==
    { <<Node(Some("d"), "trojan")>>, <<Node(Some("d"), "shadowsocksr")>> }

\* the rule-set lists ruleset_save may have stored: none, one rule set of any
\* routing mode, or two node-mode rule sets
RuleSetPool ==
    { RuleSet("r1", mode, None, TRUE) : mode \in {"direct", "proxy", "custom"} }
    \cup { RuleSet("r1", mode, value, enabled) :
             mode \in {"node", "node-zh"}, value \in {None, Some("d"), Some("a"), Some("z")},
             enabled \in BOOLEAN }
    \cup { RuleSet("r1", mode, value, TRUE) :
             mode \in {"profile", "profile-zh"}, value \in {None} \cup {Some(i) : i \in Ids} }

RuleSetLists ==
    {<<>>} \cup { <<r>> : r \in RuleSetPool }
    \cup { << RuleSet("r1", "node", Some("d"), TRUE), RuleSet("r2", "node", Some("b"), TRUE) >> }

ProfileOf(id, nodes) == [id |-> id, url |-> "u", node_count |-> Len(nodes), enabled |-> TRUE]

InitConfig ==
    /\ \E first \in ActiveLists, second \in {None} \cup { Some(l) : l \in OtherLists } :
          LET data == [profiles |-> IF second = None
                                    THEN <<ProfileOf(1, first)>>
                                    ELSE <<ProfileOf(1, first), ProfileOf(2, Unwrap(second))>>,
                       active_profile_id |-> Some(1),
                       active_node_tag |-> FirstTag(first)]
          IN /\ diskNodes = [i \in Ids |-> IF i = 1 THEN Some(first)
                                           ELSE IF i = 2 THEN second ELSE None]
             /\ diskProfiles = Some(data)
             /\ profiles_data = data
             /\ nextUuid = IF second = None THEN 2 ELSE 3
    /\ \E rule \in {"proxy", "direct"} :
          /\ settings = [AppSettingsDefault EXCEPT !.default_rule = rule]
          /\ diskSettings = Some(settings)
    /\ \E list \in RuleSetLists :
          /\ rulesets = list
          /\ diskRulesets = Some(list)
    /\ srsCache \in SUBSET {"r1"}
    /\ configJson = None
    /\ kernelBinary = Some(1)
    /\ ProcessIdle
    /\ ret = Ok("rulesets")

NextConfig ==
    \E no \in NodeOrders, po \in ProfileOrders : generate_config(no, po)

SpecConfig == InitConfig /\ [][NextConfig]_vars

(***************************************************************************)
(* singbox_start and singbox_stop step by step: each step is one access to *)
(* a field of AppState (a lock().await) with the local code around it.     *)
(* A start keeps the child it has spawned in its local `data`; the record   *)
(* of events starts again with each command.                               *)
(***************************************************************************)
notKernel == <<profVars, setVars, ruleVars, kernVars, tempVars, netVars, kernelBinary,
               traffic_stats, cancelled>>

Step(t, pc, data) ==
    inflight' = [inflight EXCEPT ![t] = [pc |-> pc, cmd |-> "singbox", id |-> 0, data |-> data]]

\* singbox_start, lines 19-31: the look at the binary and generate_config
start_config(t) ==
    /\ inflight[t].pc = "idle"
    /\ LET r == GenerateConfig(profiles_data, settings, rulesets, diskNodes, srsCache,
                               <<>>, <<>>)
       IN IF KernelMissing
          THEN /\ ret' = Err("singbox", "sing-box.exe not found. Please install kernel first.")
               /\ UNCHANGED <<inflight, configJson>>
          ELSE IF ~r.ok
          THEN /\ ret' = Err("singbox", r.err)
               /\ UNCHANGED <<inflight, configJson>>
          ELSE /\ configJson' = r.config
               /\ Step(t, "connecting", <<>>)
               /\ UNCHANGED ret
    /\ emitted' = <<>>
    /\ UNCHANGED <<notKernel, proxy_state, singbox_process, start_time, traffic_cancel,
                   nextToken, systemProxy, polling>>

\* lines 33-57: the state becomes Connecting and the child is spawned
start_spawn(t, spawnOk) ==
    /\ inflight[t].pc = "connecting"
    /\ spawnOk => nextToken <= MaxStarts
    /\ proxy_state' = "connecting"
    /\ emitted' = Append(emitted, "connecting")
    /\ IF spawnOk
       THEN /\ Step(t, "store", Some(nextToken))
            /\ nextToken' = nextToken + 1
            /\ UNCHANGED ret
       ELSE /\ inflight' = [inflight EXCEPT ![t] = IdleTask]
            /\ ret' = Err("singbox", "spawn failed")
            /\ UNCHANGED nextToken
    /\ UNCHANGED <<notKernel, configJson, singbox_process, start_time, traffic_cancel,
                   systemProxy, polling>>

\* line 76: the child is stored; a child that was stored is dropped and killed
start_store(t) ==
    /\ inflight[t].pc = "store"
    /\ singbox_process' = inflight[t].data
    /\ Step(t, "connected", inflight[t].data)
    /\ UNCHANGED <<notKernel, configJson, proxy_state, start_time, traffic_cancel,
                   nextToken, systemProxy, emitted, polling, ret>>

\* line 77
start_connected(t) ==
    /\ inflight[t].pc = "connected"
    /\ proxy_state' = "connected"
    /\ Step(t, "time", inflight[t].data)
    /\ UNCHANGED <<notKernel, configJson, singbox_process, start_time, traffic_cancel,
                   nextToken, systemProxy, emitted, polling, ret>>

\* lines 78-81
start_timestamp(t) ==
    /\ inflight[t].pc = "time"
    /\ start_time' = inflight[t].data
    /\ emitted' = Append(emitted, "connected")
    /\ Step(t, "token", inflight[t].data)
    /\ UNCHANGED <<notKernel, configJson, proxy_state, singbox_process, traffic_cancel,
                   nextToken, systemProxy, polling, ret>>

\* lines 84-91: a new token is stored, in place of any token that was there,
\* and the polling task is spawned with a clone of it
start_polling(t) ==
    /\ inflight[t].pc = "token"
    /\ traffic_cancel' = inflight[t].data
    /\ polling' = (Unwrap(inflight[t].data) :> NewPoller) @@ polling
    /\ Step(t, "proxy", inflight[t].data)
    /\ UNCHANGED <<notKernel, configJson, proxy_state, singbox_process, start_time,
                   nextToken, systemProxy, emitted, ret>>

\* lines 94-99
start_return(t) ==
    /\ inflight[t].pc = "proxy"
    /\ systemProxy' = IF settings.system_proxy
                      THEN enable_system_proxy_internal(systemProxy, settings.local_port)
                      ELSE systemProxy
    /\ ret' = Ok("singbox")
    /\ inflight' = [inflight EXCEPT ![t] = IdleTask]
    /\ UNCHANGED <<notKernel, configJson, proxy_state, singbox_process, start_time,
                   traffic_cancel, nextToken, emitted, polling>>

\* singbox_stop, lines 105-107: the stored token is taken and cancelled
stop_cancel(t) ==
    /\ inflight[t].pc = "idle"
    /\ traffic_cancel' = None
    /\ cancelled' = IF IsSome(traffic_cancel) THEN cancelled \cup {Unwrap(traffic_cancel)}
                    ELSE cancelled
    /\ Step(t, "disconnecting", <<>>)
    /\ emitted' = <<>>
    /\ UNCHANGED <<profVars, setVars, ruleVars, kernVars, tempVars, netVars, kernelBinary,
                   traffic_stats, configJson, proxy_state, singbox_process, start_time,
                   nextToken, systemProxy, polling, ret>>

\* lines 109-110
stop_disconnecting(t) ==
    /\ inflight[t].pc = "disconnecting"
    /\ proxy_state' = "disconnecting"
    /\ emitted' = Append(emitted, "disconnecting")
    /\ Step(t, "kill", <<>>)
    /\ UNCHANGED <<notKernel, configJson, singbox_process, start_time, traffic_cancel,
                   nextToken, systemProxy, polling, ret>>

\* lines 113-115: the stored child is taken and killed
stop_kill(t) ==
    /\ inflight[t].pc = "kill"
    /\ singbox_process' = None
    /\ Step(t, "unproxy", <<>>)
    /\ UNCHANGED <<notKernel, configJson, proxy_state, start_time, traffic_cancel,
                   nextToken, systemProxy, emitted, polling, ret>>

\* lines 118-120
stop_idle(t) ==
    /\ inflight[t].pc = "unproxy"
    /\ systemProxy' = disable_system_proxy_internal(systemProxy)
    /\ proxy_state' = "idle"
    /\ Step(t, "clear", <<>>)
    /\ UNCHANGED <<notKernel, configJson, singbox_process, start_time, traffic_cancel,
                   nextToken, emitted, polling, ret>>

\* lines 121-124
stop_return(t) ==
    /\ inflight[t].pc = "clear"
    /\ start_time' = None
    /\ emitted' = Append(emitted, "idle")
    /\ ret' = Ok("singbox")
    /\ inflight' = [inflight EXCEPT ![t] = IdleTask]
    /\ UNCHANGED <<notKernel, configJson, proxy_state, singbox_process, traffic_cancel,
                   nextToken, systemProxy, polling>>

(***************************************************************************)
(* Overlapping commands on a data directory that holds one subscription:   *)
(* profile_update, profile_delete and set_settings, two at a time.          *)
(***************************************************************************)
RacePayloads ==
    { [object |-> TRUE, map |-> [k \in {"theme"} |-> JStr("light")]],
      [object |-> TRUE, map |-> [k \in {"allowLan"} |-> JBool(TRUE)]] }

NextRace ==
    \/ \E t \in Slots, id \in Ids : update_begin(t, id)
    \/ \E t \in Slots, remote \in Remotes : update_write(t, remote)
    \/ \E t \in Slots, id \in Ids : delete_write(t, id)
    \/ \E t \in Slots, payload \in RacePayloads : settings_write(t, payload)
    \/ \E t \in Slots : cache_swap(t)

\* one subscription on disk, and the caches loaded from the files
InitRace ==
    /\ UsedDir
    /\ NoRulesetFiles
    /\ kernelBinary = None
    /\ profiles_data = Unwrap(diskProfiles)
    /\ settings = Unwrap(diskSettings)
    /\ rulesets = <<>>
    /\ ProcessIdle
    /\ ret = Ok("settings")

SpecRace == InitRace /\ [][NextRace]_vars

(***************************************************************************)
(* Rule-set download: the bodies a mirror or an error page can answer      *)
(* with, and ruleset_download run against them.                            *)
(***************************************************************************)
\* n bytes of whitespace: spaces, with a line feed and a tab where they fit
Whitespace(n) == [i \in 1..n |-> IF i = 2 THEN 10 ELSE IF i = 3 THEN 9 ELSE 32]

\* {"error":404}
JsonBody == <<123, 34, 101, 114, 114, 111, 114, 34, 58, 52, 48, 52, 125>>
\* SRS, a version byte and eight bytes of rules, one of them '{'
BinaryBody == <<83, 82, 83, 3, 0, 123, 0, 1, 2, 255, 4, 5>>
\* <html><body>, <HTML><BODY> and <!DOCTYPE html>
HtmlLower == <<60, 104, 116, 109, 108, 62, 60, 98, 111, 100, 121, 62>>
HtmlUpper == <<60, 72, 84, 77, 76, 62, 60, 66, 79, 68, 89, 62>>
DoctypeUpper == <<60, 33, 68, 79, 67, 84, 89, 80, 69, 32, 104, 116, 109, 108, 62>>

\* the lengths of leading whitespace: none, one byte, a run that leaves the
\* next byte inside the header, and runs that fill the header or exceed it
WhitespaceRuns == {0, 1, HeaderLen - 1, HeaderLen, HeaderLen + 1}

Bodies ==
    { Whitespace(n) \o JsonBody : n \in WhitespaceRuns }
    \cup { Whitespace(n) \o BinaryBody : n \in {0, 1, HeaderLen} }
    \cup { HtmlLower, HtmlUpper, DoctypeUpper, <<83, 82>> \o HtmlLower }
    \cup { <<123, 125>>, <<83, 82, 83>>, SubSeq(HtmlLower, 1, 6),
           SubSeq(BinaryBody, 1, MinPayload - 1), SubSeq(BinaryBody, 1, MinPayload) }

\* a request that gets no answer, a 404 page, a body that breaks off
NoAnswer == Reply(FALSE, 0, None)
NotFound == Reply(TRUE, 404, Some(HtmlLower))
BrokenBody == Reply(TRUE, 200, None)
GoodAnswer == Reply(TRUE, 200, Some(BinaryBody))

MaxAttempts == 2 * Len(GITHUB_MIRRORS)

\* the answers to the GETs of one download: the same answer to all of them
\* but one
Answers(special, rest) ==
    { [k \in 1..MaxAttempts |-> IF k = at THEN s ELSE r] :
        at \in 1..MaxAttempts, s \in special, r \in rest }

\* the rule sets the front end asks to download: a built-in (GitHub raw), a
\* mirrored and a jsDelivr address, addresses without a GitHub path, a rule
\* set without an address and a local one
RawUrl == Url("https://", "raw.githubusercontent.com/", "o/r/b/a.srs", None)
MirroredUrl ==
    Url("https://mirror.ghproxy.com/https://", "raw.githubusercontent.com/", "o/r/b/m.srs", None)
JsDelivrUrl == Url("https://", "cdn.jsdelivr.net/gh/", "o/r", Some("b/j.srs"))
JsDelivrNoBranch == Url("https://", "cdn.jsdelivr.net/gh/", "o/r/a.srs", None)
OtherUrl == Url("https://example.com/", "", "a.srs", None)

Download(tag, rule_type, url) == [tag |-> tag, rule_type |-> rule_type, url |-> url]

NextDownload ==
    \/ \E ruleset \in { Download("r1", "remote", Some(RawUrl)),
                        Download("r2", "remote", Some(OtherUrl)) },
          replies \in Answers({ Reply(TRUE, 200, Some(p)) : p \in Bodies }
                                \cup {NoAnswer, NotFound, BrokenBody},
                              {NoAnswer}) :
          ruleset_download(ruleset, replies)
    \/ \E tag \in {"r1", "r2"} : ruleset_is_cached(tag)

SpecDownload == Init /\ [][NextDownload]_vars

MirrorRequests ==
    { Download("r1", "remote", Some(u)) :
        u \in {RawUrl, MirroredUrl, JsDelivrUrl, JsDelivrNoBranch, OtherUrl} }
    \cup { Download("r1", "remote", None), Download("r2", "local", None) }

\* every mirror and client unreachable but one, which answers with the rule
\* set or with an error page
MirrorAnswers == Answers({GoodAnswer, NotFound}, {NoAnswer})

NextMirrors ==
    \/ \E ruleset \in MirrorRequests, replies \in MirrorAnswers :
          ruleset_download(ruleset, replies)
    \/ \E tag \in {"r1", "r2"} : ruleset_is_cached(tag)

SpecMirrors == Init /\ [][NextMirrors]_vars

(***************************************************************************)
(* Subscription import: profile_import_content on bodies of every format.  *)
(***************************************************************************)
Proxy(name, type, server, port) == [name |-> name, type |-> type, server |-> server, port |-> port]
Entry(tag, type) == [tag |-> tag, type |-> type]
Document(proxies, outbounds) == [proxies |-> proxies, outbounds |-> outbounds]

\* documents with a proxies array (empty, of one entry, of an entry without a
\* port), with an outbounds array, with both and with neither
Documents ==
    { Document(None, None),
      Document(Some(<<>>), None),
      Document(Some(<<Proxy(Some("a"), Some("ss"), Some("h"), Some(1))>>), None),
      Document(Some(<<Proxy(Some("a"), Some("ssr"), Some("h"), None)>>),
               Some(<<Entry(Some("b"), Some("vmess"))>>)),
      Document(Some(<<Proxy(Some("b"), Some("socks5"), Some("h"), Some(1))>>),
               Some(<<Entry(Some("a"), Some("trojan"))>>)),
      Document(None, Some(<< Entry(Some("a"), Some("vless")),
                             Entry(Some("direct"), Some("direct")),
                             Entry(Some("x"), None) >>)) }

YamlDocuments ==
    { Document(Some(<<Proxy(Some("b"), Some("trojan"), Some("h"), Some(1))>>), None),
      Document(Some(<<Proxy(None, Some("ss"), Some("h"), Some(1)),
                      Proxy(Some("a"), Some("hysteria2"), Some("h"), Some(1))>>), None),
      Document(None, Some(<<Entry(Some("b"), Some("vmess"))>>)) }

LinkLines == { <<>>, <<[scheme |-> "vmess", tag |-> "a"]>>,
               <<[scheme |-> "vmess", tag |-> "a"], [scheme |-> "ss", tag |-> "b"]>> }

\* bodies that are JSON (and at once YAML, base64 and link lines, or none of
\* them), and bodies that are not JSON
Contents ==
    { Content(Some(d), None, None, <<>>) : d \in Documents }
    \cup { Content(Some(d), Some(y), Some(<<[scheme |-> "ss", tag |-> "a"]>>),
                    <<[scheme |-> "ss", tag |-> "b"]>>) :
             d \in Documents, y \in YamlDocuments }
    \cup { Content(None, yaml, decoded, lines) :
             yaml \in {None} \cup { Some(y) : y \in YamlDocuments },
             decoded \in {None, Some(<<[scheme |-> "ss", tag |-> "a"]>>),
                          Some(<<[scheme |-> "vmess", tag |-> "a"]>>)},
             lines \in LinkLines }

NextImport ==
    \/ \E content \in Contents : profile_import_content(parse_subscription_content(content))
    \/ \E id \in Ids : profile_delete(id)
    \/ \E id \in Ids : profile_set_active(id)

SpecImport == Init /\ [][NextImport]_vars

(***************************************************************************)
(* Exporting the nodes of the active profile as links                      *)
(***************************************************************************)
\* "T", "a b", "n#1", "%41"
ExportTags == { <<84>>, <<97, 32, 98>>, <<110, 35, 49>>, <<37, 52, 49>> }
\* "aes-256-gcm", "rc4"
ExportMethods == { <<97, 101, 115, 45, 50, 53, 54, 45, 103, 99, 109>>, <<114, 99, 52>> }
\* "p", "pw", "p:w"
ExportPasswords == { <<112>>, <<112, 119>>, <<112, 58, 119>> }
\* "h", "1.2.3.4", "::1"
ExportServers == { <<104>>, <<49, 46, 50, 46, 51, 46, 52>>, <<58, 58, 49>> }
ExportPorts == { 1, 443, 65535 }

ExportNodes ==
    { LinkNode(Some(tag), Some(type), Some(server), Some(port), Some(method), Some(password)) :
        tag \in ExportTags, type \in {"shadowsocks"}, server \in ExportServers,
        port \in ExportPorts, method \in ExportMethods, password \in ExportPasswords }
    \cup { LinkNode(Some(<<84>>), Some(type), Some(<<104>>), Some(443), None, password) :
             type \in {"shadowsocks", "trojan", "hysteria2", "vless"},
             password \in {None, Some(<<112>>)} }

InitExport ==
    /\ \E node \in ExportNodes, active \in {None, Some(1)} :
          LET data == [profiles |-> <<ProfileOf(1, <<node>>)>>,
                       active_profile_id |-> active,
                       active_node_tag |-> node.tag]
          IN /\ diskNodes = [i \in Ids |-> IF i = 1 THEN Some(<<node>>) ELSE None]
             /\ diskProfiles = Some(data)
             /\ profiles_data = data
             /\ nextUuid = 2
    /\ settings = AppSettingsDefault
    /\ diskSettings = None
    /\ rulesets = <<>>
    /\ NoRulesetFiles
    /\ kernelBinary = None
    /\ ProcessIdle
    /\ ret = Ok("startup")

NextExport == \E tag \in ExportTags : node_export(tag)

SpecExport == InitExport /\ [][NextExport]_vars

(***************************************************************************)
(* The kernel binary: version query, download and rollback                  *)
(***************************************************************************)
MaxBuilds == 2

Runs ==
    { Run(FALSE, FALSE, <<>>), Run(TRUE, FALSE, <<>>), Run(TRUE, TRUE, <<<<"hello">>>>),
      Run(TRUE, TRUE, << <<"sing-box", "version", "1.8.0">>, <<"Environment:", "go1.21">> >>) }

Archives ==
    { <<>>, << ZipEntry(<<"LICENSE">>, 1), ZipEntry(<<"sing-box.exe", ".sig">>, 2) >> }
    \cup { << ZipEntry(<<"LICENSE">>, 1), ZipEntry(<<"sing-box-1.8.0/", "sing-box.exe">>, b) >> :
             b \in 1..MaxBuilds }
    \cup { << ZipEntry(<<"my-", "sing-box.exe">>, b), ZipEntry(<<"sing-box.exe">>, 1) >> :
             b \in 1..MaxBuilds }

KernelReplies ==
    { KernelReply(FALSE, 0, 0, 0, FALSE, None), KernelReply(TRUE, 404, 0, 0, FALSE, None),
      KernelReply(TRUE, 200, 9, 1, FALSE, None), KernelReply(TRUE, 200, 0, 1, TRUE, None) }
    \cup { KernelReply(TRUE, 200, length, 1, TRUE, Some(archive)) :
             length \in {0, 9}, archive \in Archives }

InitKernelFiles ==
    CachesDefault /\ FreshDir /\ NoRulesetFiles /\ kernelBinary \in {None, Some(1)}

NextKernelFiles ==
    \/ \E run \in Runs : kernel_get_local_version(run)
    \/ \E reply \in KernelReplies, install \in {"ok", "create", "copy"} :
          kernel_download([download_url |-> "u"], reply, install)
    \/ kernel_rollback
    \/ kernel_can_rollback

SpecKernelFiles == InitKernelFiles /\ [][NextKernelFiles]_vars

(***************************************************************************)
(* Latency tests with the main kernel started and stopped                   *)
(***************************************************************************)
DelayReplies ==
    { DelayReply(FALSE, FALSE, None), DelayReply(TRUE, FALSE, None),
      DelayReply(TRUE, TRUE, None), DelayReply(TRUE, TRUE, Some(None)),
      DelayReply(TRUE, TRUE, Some(Some(5))) }

BatchReplies == { DelayReply(FALSE, FALSE, None), DelayReply(TRUE, TRUE, Some(Some(5))) }

NextLatency ==
    \/ \E spawnOk \in BOOLEAN : singbox_start(spawnOk, <<>>, <<>>)
    \/ singbox_stop
    \/ \E link \in Links : node_add(link, None)
    \/ \E tag \in NodeTags, api \in BOOLEAN, spawnOk \in BOOLEAN, reply \in DelayReplies :
          node_test_latency(tag, api, spawnOk, reply)
    \/ \E api \in BOOLEAN, spawnOk \in BOOLEAN, replies \in [1..MaxNodes -> BatchReplies] :
          node_test_all(api, spawnOk, replies)
    \/ temp_exit
    \/ \E tok \in DOMAIN polling : poll_exit(tok)

SpecLatency == InitKernel /\ [][NextLatency]_vars

(***************************************************************************)
(* Starts, stops and restarts with the polling tasks they leave, each task *)
(* being scheduled again and again                                         *)
(***************************************************************************)
Tokens == 1..MaxStarts

NextLifecycle ==
    \/ profile_list
    \/ \E spawnOk \in BOOLEAN : singbox_start(spawnOk, <<>>, <<>>)
    \/ singbox_stop
    \/ \E spawnOk \in BOOLEAN : singbox_restart(spawnOk, <<>>, <<>>)
    \/ \E tok \in DOMAIN polling : poll_request(tok)
    \/ \E tok \in DOMAIN polling, resp \in {None, Some(None)} : poll_response(tok, resp)
    \/ \E tok \in DOMAIN polling : poll_exit(tok)

\* a task of the runtime that can take a step is given one: a request gets
\* its answer or its timeout, and a task whose token is cancelled leaves
FairPolling ==
    \A tok \in Tokens :
        /\ WF_vars(tok \in DOMAIN polling /\ poll_exit(tok))
        /\ WF_vars(tok \in DOMAIN polling
                   /\ \E resp \in {None, Some(None)} : poll_response(tok, resp))

SpecLifecycle == InitKernel /\ [][NextLifecycle]_vars /\ FairPolling

(***************************************************************************)
(* One singbox_start and one singbox_stop at a time, overlapping: starts   *)
(* run in the first slot and stops in the second                           *)
(***************************************************************************)
InitStartStop ==
    /\ UsedDir
    /\ NoRulesetFiles
    /\ kernelBinary = Some(1)
    /\ profiles_data = Unwrap(diskProfiles)
    /\ \E proxy \in BOOLEAN :
          settings = [Unwrap(diskSettings) EXCEPT !.system_proxy = proxy]
    /\ rulesets = <<>>
    /\ ProcessIdle
    /\ ret = Ok("settings")

NextStartStop ==
    \/ start_config(1)
    \/ \E spawnOk \in BOOLEAN : start_spawn(1, spawnOk)
    \/ start_store(1)
    \/ start_connected(1)
    \/ start_timestamp(1)
    \/ start_polling(1)
    \/ start_return(1)
    \/ stop_cancel(2)
    \/ stop_disconnecting(2)
    \/ stop_kill(2)
    \/ stop_idle(2)
    \/ stop_return(2)
    \/ \E tok \in DOMAIN polling : poll_exit(tok)

SpecStartStop == InitStartStop /\ [][NextStartStop]_vars

\* The profile commands that check what they activate: Next without
\* node_set_active, which stores whatever tag it is given.
NextChecked ==
    \/ profile_list
    \/ \E url \in Urls, remote \in Remotes : profile_add(url, remote)
    \/ \E parsed \in Remotes : profile_import_content(parsed)
    \/ \E id \in Ids, remote \in Remotes : profile_update(id, remote)
    \/ \E id \in Ids : profile_delete(id)
    \/ \E id \in Ids : profile_set_active(id)
    \/ \E tag \in NodeTags : node_delete(tag)
    \/ \E link \in Links, pid \in {None} \cup {Some(i) : i \in Ids} : node_add(link, pid)

SpecChecked == Init /\ [][NextChecked]_vars

\* Downloads of rule sets that are cached or not, remote or local, with or
\* without an address, answered by every kind of body.
CacheRequests ==
    { Download("r1", "remote", Some(RawUrl)), Download("r2", "remote", Some(OtherUrl)),
      Download("r1", "local", None), Download("r2", "remote", None) }

\* every request unanswered but the first, the second or the last, which gets
\* a rule set, an error document with status 200, a 404 or a broken body
CacheAnswers ==
    { [k \in 1..MaxAttempts |-> IF k = at THEN s ELSE NoAnswer] :
        at \in {1, 2, MaxAttempts},
        s \in { GoodAnswer, Reply(TRUE, 200, Some(JsonBody)), Reply(TRUE, 200, Some(HtmlLower)),
                Reply(TRUE, 200, Some(SubSeq(BinaryBody, 1, MinPayload - 1))),
                NoAnswer, NotFound, BrokenBody } }

NextCache ==
    \/ \E ruleset \in CacheRequests, replies \in CacheAnswers :
          ruleset_download(ruleset, replies)
    \/ \E tag \in {"r1", "r2"} : ruleset_is_cached(tag)

SpecCache == Init /\ [][NextCache]_vars

(***************************************************************************)
(* Properties                                                              *)
(***************************************************************************)
\* the node array stored in configs/<id>.json, for a profile of profiles.json
StoredNodes(id) == diskNodes[id]

\* C1: after any sequence of completed profile and node commands from an
\* empty data directory, every profile's nodeCount in profiles.json equals
\* the length of the node array stored in configs/<profile id>.json.
C1_NodeCountMirrorsFile ==
    \A i \in 1..Len(load_profiles_data.profiles) :
        LET p == load_profiles_data.profiles[i] IN
        /\ IsSome(StoredNodes(p.id))
        /\ p.node_count = Len(Unwrap(StoredNodes(p.id)))

\* C1 witness: a profile whose file was rewritten by node_add or node_delete
\* (no subscription answers <<b>>) and whose count followed.
C1_Witness ==
    /\ IsSome(diskProfiles)
    /\ \E i \in 1..Len(load_profiles_data.profiles) :
          LET p == load_profiles_data.profiles[i] IN
          /\ StoredNodes(p.id) = Some(<<Node(Some("b"), "shadowsocks")>>)
          /\ p.node_count = 1

\* C2: profile_delete applied to the active profile leaves activeProfileId
\* equal to the id of the first remaining profile (absent when none remains)
\* and activeNodeTag absent; activeProfileId never names the deleted profile.
C2_DeleteActivePromotesFirst ==
    [][\A id \in Ids :
        (profile_delete(id) /\ load_profiles_data.active_profile_id = Some(id))
        => LET remaining == SelectSeq(load_profiles_data.profiles, LAMBDA p : p.id # id)
               after == Unwrap(diskProfiles')
           IN /\ IsSome(diskProfiles')
              /\ after.active_profile_id =
                    (IF remaining = <<>> THEN None ELSE Some(remaining[1].id))
              /\ after.active_node_tag = None
              /\ after.active_profile_id # Some(id)
              /\ profiles_data' = after]_vars

\* C2 witness: the first of two profiles was deleted while active; the second,
\* which has nodes, is now active with no active node tag.
C2_Witness ==
    /\ IsSome(diskProfiles)
    /\ Len(load_profiles_data.profiles) = 1
    /\ load_profiles_data.profiles[1].id = 2
    /\ load_profiles_data.profiles[1].node_count > 0
    /\ load_profiles_data.active_profile_id = Some(2)
    /\ load_profiles_data.active_node_tag = None
    /\ StoredNodes(1) = None

\* the AppSettings field a wire key is merged into
FieldOf ==
    [localPort |-> "local_port", allowLan |-> "allow_lan",
     systemProxy |-> "system_proxy", defaultRule |-> "default_rule",
     theme |-> "theme"]

\* C5: set_settings applied twice with the same payload yields the same
\* settings as applying it once, and every field whose wire key is absent from
\* the payload (or whose key is unrecognized) keeps the value it had.
C5_SetSettingsIdempotentFrame ==
    [][\A payload \in Payloads :
        set_settings(payload)
        => /\ MergeSettings(settings', payload) = settings'
           /\ diskSettings' = Some(settings')
           /\ \A k \in DOMAIN FieldOf :
                 (~payload.object \/ k \notin DOMAIN payload.map)
                 => settings'[FieldOf[k]] = settings[FieldOf[k]]]_vars

\* C5 witness: a payload naming only localPort (and a value beyond u16) has
\* been applied; the other fields still hold their defaults.
C5_Witness ==
    /\ settings = [AppSettingsDefault EXCEPT !.local_port = 1080]
    /\ diskSettings = Some(settings)

\* C6 as claimed: after any completed command on profiles, nodes or settings,
\* succeeded or failed, the cached record equals the content of its file.
C6_CacheMirrorsDiskAfterAnyCommand ==
    /\ ret.kind = "profiles" => profiles_data = load_profiles_data
    /\ ret.kind = "settings" =>
          settings = (IF IsSome(diskSettings) THEN Unwrap(diskSettings)
                      ELSE AppSettingsDefault)

\* C8 as claimed: set_settings keeps, in the file it writes, the persisted
\* value of every key absent from the payload.
C8_SetSettingsKeepsPersistedValues ==
    [][\A payload \in Payloads :
        (set_settings(payload) /\ IsSome(diskSettings))
        => \A k \in DOMAIN FieldOf :
              (~payload.object \/ k \notin DOMAIN payload.map)
              => Unwrap(diskSettings')[FieldOf[k]] = Unwrap(diskSettings)[FieldOf[k]]]_vars

\* C3: singbox_start invoked while the kernel binary is absent returns the
\* failure "sing-box.exe not found. Please install kernel first." and has no
\* effect: the proxy state is not set to Connecting, no singbox:state event is
\* emitted, config.json is not rewritten, no process is spawned and no polling
\* task is started.
C3_StartWithoutKernelHasNoEffect ==
    [][\A spawnOk \in BOOLEAN, no \in NodeOrders, po \in ProfileOrders :
        (singbox_start(spawnOk, no, po) /\ kernelBinary = None)
        => /\ ret' = Err("singbox", "sing-box.exe not found. Please install kernel first.")
           /\ proxy_state' = proxy_state
           /\ proxy_state' # "connecting"
           /\ emitted' = <<>>
           /\ configJson' = configJson
           /\ singbox_process' = singbox_process
           /\ polling' = polling
           /\ traffic_cancel' = traffic_cancel]_vars

\* C3 witness: without a kernel binary, with an active profile loaded (so that
\* generate_config would succeed), singbox_start has returned the failure.
C3_Witness ==
    /\ kernelBinary = None
    /\ IsSome(profiles_data.active_profile_id)
    /\ ret = Err("singbox", "sing-box.exe not found. Please install kernel first.")
    /\ proxy_state = "idle"
    /\ configJson = None

\* C4: singbox_stop, invoked in any state (Idle with no stored process handle
\* included), disables the OS system proxy and returns with the proxy state
\* Idle and with no start timestamp, no process handle and no polling
\* cancellation handle.
C4_StopAlwaysIdleAndProxyOff ==
    [][singbox_stop
        => /\ ~systemProxy'.enable
           /\ proxy_state' = "idle"
           /\ start_time' = None
           /\ singbox_process' = None
           /\ traffic_cancel' = None
           /\ ret'.ok]_vars

\* C4 witness: a kernel that was running with the system proxy enabled has
\* been stopped.
C4_Witness ==
    /\ emitted = <<"disconnecting", "idle">>
    /\ proxy_state = "idle"
    /\ IsSome(systemProxy.server)
    /\ ~systemProxy.enable
    /\ cancelled # {}
    /\ singbox_process = None
    /\ traffic_cancel = None

\* no command is between its first step and its return
Quiescent == \A t \in Slots : inflight[t].pc = "idle"

\* C7 as claimed: once two overlapping mutating commands on the same record
\* have both completed, the cache equals the content of the file on disk.
C7_OverlapLeavesCacheEqualToDisk ==
    Quiescent
    => /\ IsSome(diskProfiles) => profiles_data = Unwrap(diskProfiles)
       /\ IsSome(diskSettings) => settings = Unwrap(diskSettings)

\* max(0, a - b)
Monus(a, b) == IF a - b > 0 THEN a - b ELSE 0

\* C9: in every traffic-polling tick the derived upload and download speeds
\* equal max(0, current cumulative total - previous tick's total); they are
\* never negative and never wrap around, even when the totals decrease.
C9_SpeedIsClampedDifference ==
    [][\A tok \in DOMAIN polling, resp \in Responses :
        (poll_response(tok, resp) /\ IsSome(resp) /\ IsSome(Unwrap(resp)))
        => LET data == Unwrap(Unwrap(resp))
               up == ReportedTotal(data, "uploadTotal")
               down == ReportedTotal(data, "downloadTotal")
           IN /\ traffic_stats'.upload_speed = Monus(up, polling[tok].last_upload)
              /\ traffic_stats'.download_speed = Monus(down, polling[tok].last_download)
              /\ traffic_stats'.upload_speed >= 0
              /\ traffic_stats'.download_speed >= 0
              /\ traffic_stats'.upload_speed <= up
              /\ traffic_stats'.download_speed <= down]_vars

\* C9 witness: the upload total fell from the top of the range to 1 between
\* two ticks, and the upload speed of the second tick is 0.
C9_Witness ==
    /\ traffic_stats.upload_total = 1
    /\ traffic_stats.upload_speed = 0
    /\ traffic_stats.download_total = MaxWord
    /\ traffic_stats.download_speed = 1

\* the nodes of the active profile's file that are of a proxy type
ActiveProxyNodeCount ==
    LET id == Unwrap(profiles_data.active_profile_id)
    IN Len(SelectSeq(load_profile_nodes(diskNodes, id), LAMBDA n : n.type \in ProxyTypes))

HasOutbound(type, tag) ==
    /\ IsSome(configJson)
    /\ \E i \in 1..Len(Unwrap(configJson).outbounds) :
          /\ Unwrap(configJson).outbounds[i].type = type
          /\ Unwrap(configJson).outbounds[i].tag = Some(tag)

Generated == ret = Ok("singbox") /\ IsSome(configJson)

ActiveTaggedProxyTags ==
    LET id == Unwrap(profiles_data.active_profile_id)
        nodes == load_profile_nodes(diskNodes, id)
    IN { nodes[i].tag[1] : i \in { j \in 1..Len(nodes) :
                                     nodes[j].type \in ProxyTypes /\ nodes[j].tag # <<>> } }

ActiveTaggedProxyCount ==
    LET id == Unwrap(profiles_data.active_profile_id)
        nodes == load_profile_nodes(diskNodes, id)
    IN Cardinality({ j \in 1..Len(nodes) :
                       nodes[j].type \in ProxyTypes /\ nodes[j].tag # <<>> })

\* the node tags that enabled node-mode rule sets name, that no tagged proxy
\* node of the active profile bears, and that some listed profile's file
\* resolves (its first node of that tag) to a node of a proxy type
PulledInTags ==
    { tag \in { rulesets[i].outbound_value[1] :
                  i \in { j \in 1..Len(rulesets) :
                            /\ rulesets[j].enabled
                            /\ rulesets[j].outbound_mode \in {"node", "node-zh"}
                            /\ rulesets[j].outbound_value # <<>> } } :
        /\ tag \notin ActiveTaggedProxyTags
        /\ \E k \in 1..Len(profiles_data.profiles) :
              LET nodes == load_profile_nodes(diskNodes, profiles_data.profiles[k].id)
                  at == { j \in 1..Len(nodes) : nodes[j].tag = <<tag>> }
              IN /\ at # {}
                 /\ nodes[CHOOSE j \in at : \A m \in at : j <= m].type \in ProxyTypes }

SelectorMembers == ActiveTaggedProxyCount + Cardinality(PulledInTags)

GeneratedOutboundTags == AvailableOutboundTags(Unwrap(configJson).outbounds)

\* the enabled node-mode rule sets with a cached .srs file whose node tag is
\* not among the generated outbounds
DanglingNodeRuleSets ==
    { i \in 1..Len(rulesets) :
        /\ rulesets[i].enabled
        /\ rulesets[i].tag \in srsCache
        /\ rulesets[i].outbound_mode \in {"node", "node-zh"}
        /\ rulesets[i].outbound_value # <<>>
        /\ rulesets[i].outbound_value[1] \notin GeneratedOutboundTags }

HasRule(tag, outbound) ==
    \E k \in 1..Len(Unwrap(configJson).rules) :
        /\ Unwrap(configJson).rules[k].rule_set = tag
        /\ Unwrap(configJson).rules[k].outbound = outbound

\* C11: for every enabled rule set with a cached .srs file whose mode is node
\* and whose outbound value is a tag that is not among the generated
\* outbounds, the generated configuration holds that rule set's routing rule
\* with outbound PROXY, and the rule set is among the rule-set references.
C11_DanglingNodeRuleFallsBackToProxy ==
    Generated
    => \A i \in DanglingNodeRuleSets :
          /\ HasRule(rulesets[i].tag, "PROXY")
          /\ \E k \in 1..Len(Unwrap(configJson).rule_set) :
                Unwrap(configJson).rule_set[k] = rulesets[i].tag

\* C11 witness: a configuration generated with a cached node-mode rule set
\* naming a tag no outbound bears, its rule routed to PROXY.
C11_Witness ==
    /\ Generated
    /\ DanglingNodeRuleSets # {}
    /\ \A i \in DanglingNodeRuleSets : HasRule(rulesets[i].tag, "PROXY")

\* the exchanges of the last download whose answer carried a body
BodiesReceived ==
    { k \in 1..Len(http) :
        /\ http[k].reply.sent
        /\ http[k].reply.status \in 200..299
        /\ http[k].reply.body # <<>> }

BodyOf(k) == http[k].reply.body[1]

\* the body begins, in any letter case, with the text
BeginsWithIgnoringCase(bytes, text) ==
    /\ Len(bytes) >= Len(text)
    /\ \A i \in 1..Len(text) :
          \/ bytes[i] = text[i]
          \/ bytes[i] \in 65..90 /\ bytes[i] + 32 = text[i]

\* the first byte of the body that is not whitespace is '{' and is among
\* the first n bytes
FirstNonWhitespaceIsBrace(bytes, n) ==
    \E i \in 1..Len(bytes) :
        /\ i <= n
        /\ bytes[i] = 123
        /\ \A j \in 1..(i - 1) : bytes[j] \in {9, 10, 11, 12, 13, 32}

\* the last download did not end with this exchange as its success: the
\* exchange failed, and a successful download ended with a later one
NotReturnedAsSuccess(k) ==
    /\ ~http[k].result.ok
    /\ (ret.kind = "ruleset_download" /\ ret.ok) => k < Len(http)

\* C12 as claimed: download_and_verify rejects every payload shorter than 10
\* bytes, every payload beginning case-insensitively with <!doctype html or
\* <html, and every payload whose first non-whitespace character is '{',
\* however much whitespace precedes it; a rejected payload is never returned
\* as success.
C12_RejectsSmallHtmlAndAnyJson ==
    \A k \in BodiesReceived :
        ( \/ Len(BodyOf(k)) < 10
          \/ BeginsWithIgnoringCase(BodyOf(k), DoctypeHtml)
          \/ BeginsWithIgnoringCase(BodyOf(k), HtmlTag)
          \/ FirstNonWhitespaceIsBrace(BodyOf(k), Len(BodyOf(k))) )
        => NotReturnedAsSuccess(k)

\* C12 amended: download_and_verify rejects every payload shorter than 10
\* bytes, every payload beginning case-insensitively with <!doctype html or
\* <html, and every payload whose first non-whitespace character is '{' and
\* lies within the first 64 bytes; a rejected payload is never returned as
\* success.
C12_RejectsSmallHtmlAndJsonInHeader ==
    \A k \in BodiesReceived :
        ( \/ Len(BodyOf(k)) < 10
          \/ BeginsWithIgnoringCase(BodyOf(k), DoctypeHtml)
          \/ BeginsWithIgnoringCase(BodyOf(k), HtmlTag)
          \/ FirstNonWhitespaceIsBrace(BodyOf(k), 64) )
        => NotReturnedAsSuccess(k)

\* a download that refused a JSON body whose '{' is the last byte of the
\* header and failed, no later answer being usable
C12_Witness ==
    /\ ret.kind = "ruleset_download" /\ ~ret.ok
    /\ \E k \in BodiesReceived :
          /\ FirstNonWhitespaceIsBrace(BodyOf(k), HeaderLen)
          /\ ~FirstNonWhitespaceIsBrace(BodyOf(k), HeaderLen - 1)
          /\ http[k].result = [ok |-> FALSE, err |-> "Received JSON error response"]

\* the mirrors in the order claimed
ClaimedMirrors ==
    << "https://raw.githubusercontent.com/",
       "https://mirror.ghproxy.com/https://raw.githubusercontent.com/",
       "https://raw.gitmirror.com/",
       "https://raw.fastgit.org/" >>

\* the candidate urls claimed for each address asked for
ClaimedCandidates(u) ==
    LET path == CASE u = RawUrl -> "o/r/b/a.srs"
                  [] u = MirroredUrl -> "o/r/b/m.srs"
                  [] u = JsDelivrUrl -> "o/r/b/j.srs"
                  [] OTHER -> ""
    IN IF path # ""
       THEN [i \in 1..4 |-> ClaimedMirrors[i] \o path]
       ELSE IF u = JsDelivrNoBranch THEN <<"https://cdn.jsdelivr.net/gh/o/r/a.srs">>
       ELSE <<"https://example.com/a.srs">>

\* the log is a run through the candidates in order, each through the proxy
\* client and then the direct client, that ends with its first success
RunsThrough(log, candidates) ==
    /\ Len(log) \in 1..(2 * Len(candidates))
    /\ \A k \in 1..Len(log) :
          /\ log[k].url = candidates[(k + 1) \div 2]
          /\ log[k].client = (IF k % 2 = 1 THEN "proxy" ELSE "direct")
          /\ k < Len(log) => ~log[k].result.ok

\* C18: ruleset_download for an uncached remote rule set tries the candidate
\* urls in the fixed mirror order (or the original url alone when it holds no
\* GitHub path), each through the local-proxy client before the direct
\* client; it stops at the first attempt that passes verification, caches the
\* file and makes no further attempt; if every attempt fails it returns a
\* failure carrying the error of the last attempt.
C18_MirrorsInOrderFirstSuccessWins ==
    [][\A ruleset \in MirrorRequests :
        ( /\ ruleset.rule_type = "remote"
          /\ ruleset.tag \notin srsCache
          /\ ruleset.url # <<>>
          /\ \E replies \in MirrorAnswers : ruleset_download(ruleset, replies) )
        => LET candidates == ClaimedCandidates(ruleset.url[1])
               last == http'[Len(http')]
           IN /\ RunsThrough(http', candidates)
              /\ ret'.ok <=> last.result.ok
              /\ ret'.ok => /\ ret'.url = <<last.url>>
                            /\ ~ret'.cached
                            /\ srsCache' = srsCache \cup {ruleset.tag}
              /\ ~ret'.ok =>
                    /\ Len(http') = 2 * Len(candidates)
                    /\ ret'.err = "All download attempts failed: " \o last.result.err
                    /\ srsCache' = srsCache]_vars

\* C18 witness: a download that failed on raw.githubusercontent.com and on
\* the ghproxy mirror through both clients, and on gitmirror through the
\* proxy client, and stopped at gitmirror's answer to the direct client.
C18_Witness ==
    /\ ret.kind = "ruleset_download" /\ ret.ok /\ ~ret.cached
    /\ Len(http) = 6
    /\ http[6].client = "direct"
    /\ ret.url = <<"https://raw.gitmirror.com/o/r/b/j.srs">>
    /\ "r1" \in srsCache

\* the outcome of an import whose body parses to these nodes: they are
\* stored as the new profile's node file, or the import fails for want of a
\* node and stores nothing
ImportedAs(nodes) ==
    IF nodes = <<>>
    THEN /\ ret' = Err("profiles", "No valid nodes found in content")
         /\ diskNodes' = diskNodes
    ELSE /\ ret'.ok
         /\ diskNodes'[nextUuid] = <<nodes>>

\* the nodes the links among these lines stand for
LinkNodes(lines) ==
    LET ss == SelectSeq(lines, LAMBDA l : l.scheme = "ss")
    IN [i \in 1..Len(ss) |-> Node(<<ss[i].tag>>, "shadowsocks")]

\* C13: parse_subscription_content tries JSON, YAML, base64-decoded lines and
\* raw lines in that order and the first that succeeds wins: a JSON body with
\* a proxies array goes to the Clash-proxy parser whatever else it holds or
\* decodes to, a JSON body with an outbounds array only to the sing-box
\* parser, then a YAML body with a proxies array to the Clash-proxy parser,
\* then the decoded lines if they yield a node, then the raw lines; the
\* error "No valid nodes found" is returned only when no stage yields
\* anything.
C13_FirstFormatThatSucceedsWins ==
    [][\A content \in Contents :
        profile_import_content(parse_subscription_content(content))
        => LET json == content.json
               yaml == content.yaml
               jsonProxies == json # <<>> /\ json[1].proxies # <<>>
               jsonOutbounds == json # <<>> /\ json[1].outbounds # <<>>
               yamlProxies == yaml # <<>> /\ yaml[1].proxies # <<>>
               decoded == IF content.decoded # <<>> THEN LinkNodes(content.decoded[1])
                          ELSE <<>>
               raw == LinkNodes(content.lines)
           IN /\ jsonProxies => ImportedAs(parse_clash_proxies(json[1].proxies[1]))
              /\ (~jsonProxies /\ jsonOutbounds)
                    => ImportedAs(parse_singbox_outbounds(json[1].outbounds[1]))
              /\ (~jsonProxies /\ ~jsonOutbounds /\ yamlProxies)
                    => ImportedAs(parse_clash_proxies(yaml[1].proxies[1]))
              /\ (~jsonProxies /\ ~jsonOutbounds /\ ~yamlProxies /\ decoded # <<>>)
                    => ImportedAs(decoded)
              /\ (~jsonProxies /\ ~jsonOutbounds /\ ~yamlProxies /\ decoded = <<>>
                     /\ raw # <<>>)
                    => ImportedAs(raw)
              /\ ret' = Err("profiles", "No valid nodes found")
                    => /\ ~jsonProxies /\ ~jsonOutbounds /\ ~yamlProxies
                       /\ decoded = <<>> /\ raw = <<>>]_vars

\* C13 witness: a profile imported from a JSON body with a proxies array, an
\* outbounds array, and link lines, holding the node of the proxies array.
C13_Witness ==
    /\ ret = Ok("profiles")
    /\ diskNodes[1] = <<<<Node(<<"b">>, "socks")>>>>
    /\ profiles_data.active_node_tag = <<"b">>

\* the node of the active profile that node_export(tag) exports
Exported(tag) ==
    SelectSeq(load_profile_nodes(diskNodes, Unwrap(load_profiles_data.active_profile_id)),
              LAMBDA n : n.tag = Some(tag))[1]

\* C14: exporting a shadowsocks node that has a tag, a server, a port, a
\* method and a password gives ss://base64(method:password)@host:port#tag
\* with the tag percent-encoded, and parsing that link gives a node with the
\* same tag, server, port, method and password
C14_ShadowsocksExportParsesBack ==
    [][\A tag \in ExportTags :
          (/\ node_export(tag)
           /\ ret'.ok
           /\ Exported(tag).type = Some("shadowsocks")
           /\ Exported(tag).method # None
           /\ Exported(tag).password # None)
          => LET node == Exported(tag)
                 link == ret'.value.link
             IN /\ ret'.value.text
                /\ link = <<115, 115, 58, 47, 47>>
                          \o B64Encode(node.method[1] \o <<58>> \o node.password[1])
                          \o <<64>> \o node.server[1] \o <<58>> \o Decimal(node.server_port[1])
                          \o <<35>> \o UrlEncode(node.tag[1])
                /\ parse_node_link_text(link) = Some(node)]_vars

\* the same for the nodes whose server holds no ':'
C14_ParsesBackWithoutColonInServer ==
    [][\A tag \in ExportTags :
          (/\ node_export(tag)
           /\ ret'.ok
           /\ Exported(tag).type = Some("shadowsocks")
           /\ Exported(tag).method # None
           /\ Exported(tag).password # None
           /\ Occurrences(Exported(tag).server[1], 58) = 0)
          => parse_node_link_text(ret'.value.link) = Some(Exported(tag))]_vars

\* the application state: everything but the result of the last command and
\* the records of its events and requests
AppStateVars ==
    <<profVars, setVars, ruleVars, kernVars, tempVars, confVars, trafVars, taskVars,
      kernelBinary, proxy_state, singbox_process, start_time, traffic_cancel,
      cancelled, nextToken, systemProxy>>

\* C17: singbox_switch_node sends PUT /proxies/PROXY only when the state is
\* Connected; in any other state it fails with "VPN not running" and sends
\* nothing; it never changes the proxy state or any other application state
C17_SwitchNodeOnlyWhenConnected ==
    [][\A tag \in NodeTags, api \in ApiOutcomes :
          singbox_switch_node(tag, api)
          => /\ proxy_state = "connected" => http' = <<SwitchRequest(tag, api)>>
             /\ proxy_state # "connected"
                  => http' = <<>> /\ ~ret'.ok /\ ret'.err = "VPN not running"
             /\ UNCHANGED AppStateVars]_vars

\* a switch refused while a failed start has left the state at Connecting
C17_Witness ==
    /\ proxy_state = "connecting"
    /\ ret = Err("singbox", "VPN not running")
    /\ http = <<>>
    /\ emitted = <<>>

\* C16: kernel_get_local_version never returns an error; without a binary,
\* when the binary cannot be run and when it exits non-zero the result is no
\* version
C16_LocalVersionNeverErrors ==
    ret.kind = "kernel_get_local_version" => ret.ok

\* C19: with a live binary and a backup, kernel_rollback exchanges the two
\* and leaves no temporary file, so a second rollback restores the files;
\* without a backup it changes no file and reports success: false, which is
\* when kernel_can_rollback answers false
C19_RollbackSwapsOrDoesNothing ==
    [][/\ kernel_rollback
          => IF kernelBackup = None
             THEN /\ UNCHANGED <<kernelBinary, kernelBackup, kernelTemp>>
                  /\ ret'.ok /\ ~ret'.value.success
             ELSE /\ ret'.ok /\ ret'.value.success
                  /\ kernelBinary # None
                       => /\ kernelBinary' = kernelBackup
                          /\ kernelBackup' = kernelBinary
                          /\ kernelTemp' = None
                          /\ Swap([live |-> kernelBinary', bak |-> kernelBackup',
                                   tmp |-> kernelTemp'])
                             = [live |-> kernelBinary, bak |-> kernelBackup, tmp |-> None]
       /\ kernel_can_rollback => ret'.value = (kernelBackup # None)]_vars

\* a rollback has exchanged two different builds
C19_Witness ==
    /\ ret.kind = "kernel_rollback" /\ ret.value.success
    /\ kernelBinary # None /\ kernelBackup # None /\ kernelBinary # kernelBackup
    /\ kernelTemp = None

C15_LatencyTestsNeverError ==
    ret.kind \in {"node_test_latency", "node_test_all"} => ret.ok

\* the batch alone: it never returns an error, and a failed probe is -1
C15_BatchNeverErrors ==
    ret.kind = "node_test_all"
    => /\ ret.ok
       /\ \A i \in 1..Len(http) :
            ~http[i].reply.sent
            => \E j \in i..Len(http) :
                  /\ http[j].proxy = http[i].proxy
                  /\ ret.value[http[i].proxy]
                     = (IF http[j].reply.sent THEN 5 ELSE -1)

\* C23: Connecting and Disconnecting are transient: when singbox_start or
\* singbox_stop has returned, with success, a failure result or an error, the
\* state is Idle, Connected or Error
C23_NoTransientStateAtRest ==
    ret.kind = "singbox" => proxy_state \in {"idle", "connected", "error"}

\* C21: once a singbox_stop has completed, every polling task started by an
\* earlier singbox_start has had its token cancelled and eventually exits: no
\* polling task keeps running while the state stays Idle
C21_StopEndsEveryPollingTask ==
    /\ [](proxy_state = "idle" => \A tok \in DOMAIN polling : tok \in cancelled)
    /\ \A tok \in Tokens :
          (proxy_state = "idle" /\ tok \in DOMAIN polling) ~> (tok \notin DOMAIN polling)

\* C22: under every interleaving of a singbox_start and a singbox_stop, once
\* both have returned, Connected implies that a kernel process, a start time
\* and a cancellation token are stored, and Idle implies that none of them is
C22_HandlesMatchStateAfterOverlap ==
    Quiescent
    => /\ proxy_state = "connected"
            => singbox_process # None /\ start_time # None /\ traffic_cancel # None
       /\ proxy_state = "idle"
            => singbox_process = None /\ start_time = None /\ traffic_cancel = None

\* the same when the commands run one after the other
C22_HandlesMatchStateInSequence ==
    /\ proxy_state = "connected"
         => singbox_process # None /\ start_time # None /\ traffic_cancel # None
    /\ proxy_state = "idle"
         => singbox_process = None /\ start_time = None /\ traffic_cancel = None

\* C24: every outbound name the generated configuration refers to (the route's
\* final outbound, the detour of the remote DNS server, each rule's outbound,
\* each member and the default of a selector or urltest group) is the tag of an
\* outbound defined in the same configuration.
ReferencedOutbounds ==
    LET c == Unwrap(configJson)
    IN {c.final, c.dns_remote_detour}
       \cup { c.rules[k].outbound : k \in 1..Len(c.rules) }
       \cup UNION { { c.outbounds[i].outbounds[m] : m \in 1..Len(c.outbounds[i].outbounds) }
                    : i \in 1..Len(c.outbounds) }

C24_NoDanglingOutboundReference ==
    Generated => ReferencedOutbounds \subseteq GeneratedOutboundTags

\* C25: the PROXY selector, when present, is the first outbound, its members
\* are exactly the tags of the active profile's proxy-type nodes in file order
\* (a node of another profile pulled in for a rule set is not a member), and
\* its default is the active node tag when set, otherwise the first node's tag.
ActiveProfileProxyTags ==
    LET nodes == load_profile_nodes(diskNodes, Unwrap(profiles_data.active_profile_id))
        tagged == TaggedProxyNodes(nodes)
    IN [i \in 1..Len(tagged) |-> Unwrap(tagged[i].tag)]

C25_ProxySelectorCoversActiveProfile ==
    (Generated /\ HasOutbound("selector", "PROXY"))
    => LET first == Unwrap(configJson).outbounds[1]
           nodes == load_profile_nodes(diskNodes, Unwrap(profiles_data.active_profile_id))
       IN /\ first.type = "selector" /\ first.tag = Some("PROXY")
          /\ first.outbounds = ActiveProfileProxyTags
          /\ first.default = IF IsSome(profiles_data.active_node_tag)
                             THEN profiles_data.active_node_tag
                             ELSE FirstTag(nodes)

\* The position and the default of the PROXY selector alone.
C25_ProxySelectorFirstWithDefault ==
    (Generated /\ HasOutbound("selector", "PROXY"))
    => LET first == Unwrap(configJson).outbounds[1]
           nodes == load_profile_nodes(diskNodes, Unwrap(profiles_data.active_profile_id))
       IN /\ first.type = "selector" /\ first.tag = Some("PROXY")
          /\ first.default = IF IsSome(profiles_data.active_node_tag)
                             THEN profiles_data.active_node_tag
                             ELSE FirstTag(nodes)

\* C26: with node_set_active left out, the persisted activeNodeTag is absent or
\* is the tag of a node in the active profile's persisted node list.
ActiveNodeTagIsListed ==
    LET data == load_profiles_data
    IN data.active_node_tag = None
       \/ /\ IsSome(data.active_profile_id)
          /\ \E j \in 1..Len(load_profile_nodes(diskNodes, Unwrap(data.active_profile_id))) :
                load_profile_nodes(diskNodes, Unwrap(data.active_profile_id))[j].tag
                    = data.active_node_tag

C26_ActiveNodeTagNamesListedNode == ActiveNodeTagIsListed

\* C27: from an empty data directory, after every profile command the
\* persisted activeProfileId is the id of a listed profile when the list is
\* non-empty and is absent exactly when the list is empty; a profile_set_active
\* that fails leaves disk and cache as they were.
ActiveProfileIsListed ==
    LET data == load_profiles_data
    IN /\ data.profiles # <<>>
            => /\ IsSome(data.active_profile_id)
               /\ HasProfile(data.profiles, Unwrap(data.active_profile_id))
       /\ data.profiles = <<>> <=> data.active_profile_id = None

C27_ActiveProfileIsListedOrAbsent ==
    /\ []ActiveProfileIsListed
    /\ [][\A id \in Ids :
            (profile_set_active(id) /\ ~ret'.ok) => UNCHANGED <<profVars, notProf>>]_vars

C27_Witness ==
    /\ ret = Err("profiles", "Profile not found")
    /\ Len(load_profiles_data.profiles) = 1
    /\ load_profiles_data.active_profile_id = Some(2)
    /\ profiles_data = load_profiles_data

\* C28: a kernel_download that has returned has emitted kernel:download-start
\* first and exactly one terminal event, as its last event:
\* kernel:download-complete when it returned success, kernel:download-error
\* when it returned an error, whatever the failure.
TerminalEvents == {"kernel:download-complete", "kernel:download-error"}

C28_DownloadEndsWithOneTerminalEvent ==
    ret.kind = "kernel_download"
    => /\ emitted # <<>>
       /\ emitted[1] = "kernel:download-start"
       /\ Cardinality({ i \in 1..Len(emitted) : emitted[i] \in TerminalEvents }) = 1
       /\ emitted[Len(emitted)] = IF ret.ok THEN "kernel:download-complete"
                                            ELSE "kernel:download-error"

\* C29: when a latency command has probed through the disposable kernel
\* instance, the configuration that instance runs holds every node of the
\* active profile as persisted at that moment.
ProbedThroughTemp ==
    /\ ret.kind \in {"node_test_latency", "node_test_all"}
    /\ http # <<>>
    /\ \A i \in 1..Len(http) : http[i].port = TEMP_SINGBOX_PORT

C29_TempInstanceRunsCurrentNodes ==
    ProbedThroughTemp
    => LET running == Unwrap(temp_singbox_process).config.outbounds
           nodes == load_profile_nodes(diskNodes, Unwrap(load_profiles_data.active_profile_id))
       IN \A j \in 1..Len(nodes) : \E i \in 1..Len(running) : running[i].node = nodes[j]

\* C30: a ruleset_download of a rule set that is cached or not remote sends
\* no request and leaves the cache as it is; a download adds at most the file
\* of its own tag, removes none, and adds it only when its last request was
\* answered with a payload that passes verification; a download that fails
\* leaves the rule set uncached.
C30_DownloadOnlyAddsVerifiedFiles ==
    [][\A ruleset \in CacheRequests, replies \in CacheAnswers :
          ruleset_download(ruleset, replies)
          => /\ (ruleset.tag \in srsCache \/ ruleset.rule_type # "remote")
                    => http' = <<>> /\ srsCache' = srsCache /\ ret'.ok
             /\ srsCache \subseteq srsCache'
             /\ srsCache' \subseteq srsCache \cup {ruleset.tag}
             /\ srsCache' # srsCache
                    => /\ ret'.ok
                       /\ http' # <<>>
                       /\ LET last == http'[Len(http')].reply
                          IN /\ last.sent /\ last.status \in 200..299 /\ last.body # None
                             /\ VerifyBytes(Unwrap(last.body)).ok
             /\ ~ret'.ok => ruleset.tag \notin srsCache']_vars

C30_Witness ==
    /\ ret.kind = "ruleset_download"
    /\ ret.ok
    /\ ret.cached
    /\ "r1" \in srsCache
    /\ http = <<>>

=============================================================================
